---- MODULE Spec2Model ----
(***************************************************************************)
(* Batched ARIMA: parameter codec (pack / unpack), the single-order fit    *)
(* driver, the finite-difference gradient, the information criteria and    *)
(* the grid search of python/cuml/ts/batched_arima.pyx; the in-sample /    *)
(* out-of-sample predict, the conditional sum of squares and the initial   *)
(* estimator of the C++ layer; and the AutoARIMA model selector.  Each     *)
(* component has its own specification; a specification leaves the         *)
(* variables of the other components at their idle values.                 *)
(***************************************************************************)
EXTENDS Integers, Sequences, FiniteSets, TLC

(***************************************************************************)
(* Bounds of the model.                                                    *)
(***************************************************************************)
MaxNb == 2

MaxOrder == 1

XVals == {0, 1}

Range(f) == {f[i] : i \in DOMAIN f}

\* pack / unpack
VARIABLES pk_pc, pk_order, pk_nb, pk_x, pk_params, pk_out

\* ML::predict
VARIABLES pr_phase, pr_args, pr_out, pr_i, pr_bufs, pr_oob

\* fit
VARIABLES ft_pc, ft_order, ft_nb, ft_params0, ft_x, ft_flags, ft_niter,
          ft_model

\* grid_search
VARIABLES gs_pc, gs_args, gs_k, gs_best_ic, gs_best_model, gs_min, gs_argmin

\* AutoARIMA
VARIABLES aa_pc, aa_self, aa_args, aa_data_D, aa_data_dD, aa_loop, aa_temp,
          aa_bounds, aa_all_ic, aa_all_orders, aa_models, aa_id_tracker,
          aa_log, aa_map, aa_out

\* _start_params / _arma_least_squares; es_calls is a history variable: the
\* calls of _arma_least_squares made so far
VARIABLES es_pc, es_order, es_in, es_params, es_calls

\* ll_gf; gf_evals is a history variable: the points at which ll_f has been
\* evaluated so far
VARIABLES gf_pc, gf_args, gf_i, gf_grad, gf_evals

\* ARIMAModel.bic / ARIMAModel.aic
VARIABLES ic_pc, ic_model, ic_bic, ic_aic

\* conditional_sum_of_squares / sum_of_squares_kernel (one block = one
\* series); cs_oob is a history variable: the accesses made outside the
\* n_obs cells of a buffer
VARIABLES cs_pc, cs_in, cs_i, cs_vs, cs_ssq, cs_loglike, cs_oob

\* batched_loglike / information_criterion: the calls of the device
\* allocator made so far are logged in bl_log
VARIABLES bl_pc, bl_args, bl_log

\* ls_backtrack
VARIABLES ls_pc, ls_param, ls_st

packVars == <<pk_pc, pk_order, pk_nb, pk_x, pk_params, pk_out>>

predVars == <<pr_phase, pr_args, pr_out, pr_i, pr_bufs, pr_oob>>

fitVars ==
  <<ft_pc, ft_order, ft_nb, ft_params0, ft_x, ft_flags, ft_niter, ft_model>>

autoVars ==
  <<aa_pc, aa_self, aa_args, aa_data_D, aa_data_dD, aa_loop, aa_temp,
    aa_bounds, aa_all_ic, aa_all_orders, aa_models, aa_id_tracker, aa_log,
    aa_map, aa_out>>

gridVars == <<gs_pc, gs_args, gs_k, gs_best_ic, gs_best_model, gs_min, gs_argmin>>

estVars == <<es_pc, es_order, es_in, es_params, es_calls>>

\* the variables of the components of the C++ estimation layer
gradVars == <<gf_pc, gf_args, gf_i, gf_grad, gf_evals>>

icVars == <<ic_pc, ic_model, ic_bic, ic_aic>>

cssVars == <<cs_pc, cs_in, cs_i, cs_vs, cs_ssq, cs_loglike, cs_oob>>

memVars == <<bl_pc, bl_args, bl_log>>

lsVars == <<ls_pc, ls_param, ls_st>>

moreVars == <<estVars, gradVars, icVars, cssVars, memVars, lsVars>>

vars == <<packVars, predVars, fitVars, gridVars, autoVars, moreVars>>

notPack == <<predVars, fitVars, gridVars, autoVars, moreVars>>

notPred == <<packVars, fitVars, gridVars, autoVars, moreVars>>

notFit == <<packVars, predVars, gridVars, autoVars, moreVars>>

notGrid == <<packVars, predVars, fitVars, autoVars, moreVars>>

notAuto == <<packVars, predVars, fitVars, gridVars, moreVars>>

\* the variables of the Python layer and of ML::predict
baseVars == <<packVars, predVars, fitVars, gridVars, autoVars>>

notEst == <<baseVars, gradVars, icVars, cssVars, memVars, lsVars>>

notGrad == <<baseVars, estVars, icVars, cssVars, memVars, lsVars>>

notIc == <<baseVars, estVars, gradVars, cssVars, memVars, lsVars>>

notCss == <<baseVars, estVars, gradVars, icVars, memVars, lsVars>>

notMem == <<baseVars, estVars, gradVars, icVars, cssVars, lsVars>>

notLs == <<baseVars, estVars, gradVars, icVars, cssVars, memVars>>

SeqsOfLen(S, n) == [1..n -> S]

(***************************************************************************)
(* ParameterCodec: unpack / pack                                           *)
(***************************************************************************)

\* x[a:b] of a Python / numpy vector (0-based, half open)
Slice(x, a, b) == SubSeq(x, a + 1, IF b > Len(x) THEN Len(x) ELSE b)

\* unpack(p, d, q, nb, x) -> (mu, ar, ma)
unpack(p, d, q, nb, x) ==
  LET num_parameters == d + p + q
      xi(i) == Slice(x, (i - 1) * num_parameters, i * num_parameters)
  IN  [mu |-> [i \in 1..nb |-> IF d > 0 THEN xi(i)[1] ELSE 0],
       ar |-> IF p > 0 THEN [i \in 1..nb |-> Slice(xi(i), d, d + p)] ELSE <<>>,
       ma |-> [i \in 1..nb |-> Slice(xi(i), d + p, num_parameters)]]

\* pack(p, d, q, nb, mu, ar, ma) -> x
pack(p, d, q, nb, mu, ar, ma) ==
  LET num_parameters == d + p + q
      xi(i) == [j \in 1..num_parameters |->
                  IF j = 1 /\ d > 0 THEN mu[i]
                  ELSE IF j > d /\ j <= d + p THEN ar[i][j - d]
                  ELSE IF j > d + p /\ j <= d + p + q THEN ma[i][j - d - p]
                  ELSE 0]
  IN  [n \in 1..(num_parameters * nb) |->
         xi(((n - 1) \div num_parameters) + 1)[((n - 1) % num_parameters) + 1]]

PackIdle ==
  /\ pk_pc = "idle"
  /\ pk_order = <<0, 0, 0>>
  /\ pk_nb = 0
  /\ pk_x = <<>>
  /\ pk_params = [mu |-> <<>>, ar |-> <<>>, ma |-> <<>>]
  /\ pk_out = <<>>

PackInit ==
  /\ pk_pc = "start"
  /\ pk_order \in (0..MaxOrder) \X (0..2) \X (0..MaxOrder)
  /\ pk_nb \in 1..MaxNb
  /\ pk_x \in SeqsOfLen(XVals, pk_nb * (pk_order[1] + pk_order[2] + pk_order[3]))
  /\ pk_params = [mu |-> <<>>, ar |-> <<>>, ma |-> <<>>]
  /\ pk_out = <<>>

Unpack ==
  /\ pk_pc = "start"
  /\ pk_params' = unpack(pk_order[1], pk_order[2], pk_order[3], pk_nb, pk_x)
  /\ pk_pc' = "unpacked"
  /\ UNCHANGED <<pk_order, pk_nb, pk_x, pk_out>>
  /\ UNCHANGED notPack

Pack ==
  /\ pk_pc = "unpacked"
  /\ pk_out' = pack(pk_order[1], pk_order[2], pk_order[3], pk_nb,
                    pk_params.mu, pk_params.ar, pk_params.ma)
  /\ pk_pc' = "packed"
  /\ UNCHANGED <<pk_order, pk_nb, pk_x, pk_params>>
  /\ UNCHANGED notPack

(***************************************************************************)
(* ML::predict: in-sample prediction and out-of-sample forecast copy.      *)
(* The two thrust::for_each loops run one lambda per series id (bid); the  *)
(* lambdas of one loop run in any interleaving, the loops run in stream    *)
(* order.                                                                  *)
(***************************************************************************)
MaxBatchP == 2

MaxObs == 3

MaxLost == 2

MaxT == 4

\* contents of an output cell nobody has written yet
Uninit == -1

\* the undefined marker nan("")
NaNV == -2

\* observation d_y[bid * n_obs + t] (series-major), a distinct value per cell
YAt(bid, t) == 100 * (bid + 1) + 10 * t

\* residual d_vs[bid * ld_yprep + j] written by batched_loglike
VAt(bid, j) == j + 1

\* forecast d_y_fc[num_steps * bid + i] after finalize_forecast
FcAt(bid, i) == 1000 * (bid + 1) + i

Max2(a, b) == IF a > b THEN a ELSE b

Min2(a, b) == IF a < b THEN a ELSE b

num_steps(a) == Max2(a.end - a.n_obs, 0)

predict_ld(a) == a.end - a.start

ld_yprep(a) == a.n_obs - a.diff_obs

p_start(a) == Max2(a.start, a.diff_obs)

p_end(a) == Min2(a.n_obs, a.end)

\* the writes to d_y_p made by the in-sample lambda of series bid, in
\* program order: (index, value)
InSampleWrites(a, bid) ==
  LET nNan == Max2(a.diff_obs - a.start, 0)
      nPred == Max2(p_end(a) - p_start(a), 0)
  IN  << <<0, 0>> >>
      \o [i \in 1..nNan |-> <<bid * predict_ld(a) + (i - 1), NaNV>>]
      \o [k \in 1..nPred |->
            LET i == p_start(a) + k - 1
            IN  <<bid * predict_ld(a) + i - a.start,
                  YAt(bid, i) - VAt(bid, i - a.diff_obs)>>]

\* the writes to d_y_p made by the forecast-copy lambda of series bid
ForecastWrites(a, bid) ==
  [k \in 1..num_steps(a) |->
     <<bid * predict_ld(a) + a.n_obs - a.start + (k - 1), FcAt(bid, k - 1)>>]

\* the calls of the device allocator, as they are logged: a buffer and the
\* size it is allocated or deallocated with
Allocate(buf, size) == [op |-> "allocate", buf |-> buf, size |-> size]

Deallocate(buf, size) == [op |-> "deallocate", buf |-> buf, size |-> size]

\* one store d_y_p[idx] = val; a store outside the array is undefined
\* behaviour, recorded in pr_oob
Store(out, idx, val) ==
  IF idx \in DOMAIN out THEN [out EXCEPT ![idx] = val] ELSE out

PredIdle ==
  /\ pr_phase = "idle"
  /\ pr_args = [batch_size |-> 0, n_obs |-> 0, diff_obs |-> 0,
                start |-> 0, end |-> 0]
  /\ pr_out = <<>>
  /\ pr_i = <<>>
  /\ pr_bufs = <<>>
  /\ pr_oob = FALSE

PredInit ==
  /\ pr_phase = "start"
  /\ pr_args \in {a \in [batch_size : 1..MaxBatchP, n_obs : 1..MaxObs,
                         diff_obs : 0..MaxLost, start : 0..MaxT,
                         end : 1..MaxT] :
                    a.diff_obs < a.n_obs /\ a.start < a.end}
  /\ pr_out = [idx \in 0..(pr_args.batch_size * predict_ld(pr_args) - 1) |->
                 Uninit]
  /\ pr_i = [bid \in 0..(pr_args.batch_size - 1) |-> 0]
  /\ pr_bufs = <<>>
  /\ pr_oob = FALSE

\* allocation of d_y_prep and d_y_fc, prepare_data, batched_loglike
PredictPrepare ==
  /\ pr_phase = "start"
  /\ pr_bufs' = <<Allocate("d_y_prep", ld_yprep(pr_args) * pr_args.batch_size)>>
                \o (IF num_steps(pr_args) # 0
                    THEN <<Allocate("d_y_fc",
                                    num_steps(pr_args) * pr_args.batch_size)>>
                    ELSE <<>>)
  /\ pr_phase' = IF pr_args.start < pr_args.n_obs THEN "insample"
                 ELSE IF num_steps(pr_args) # 0 THEN "forecast"
                 ELSE "release"
  /\ UNCHANGED <<pr_args, pr_out, pr_i, pr_oob>>
  /\ UNCHANGED notPred

\* one store of the in-sample lambda of series bid
InSampleStep(bid) ==
  /\ pr_phase = "insample"
  /\ pr_i[bid] < Len(InSampleWrites(pr_args, bid))
  /\ LET w == InSampleWrites(pr_args, bid)[pr_i[bid] + 1]
     IN  /\ pr_out' = Store(pr_out, w[1], w[2])
         /\ pr_oob' = (pr_oob \/ w[1] \notin DOMAIN pr_out)
  /\ pr_i' = [pr_i EXCEPT ![bid] = @ + 1]
  /\ UNCHANGED <<pr_phase, pr_args, pr_bufs>>
  /\ UNCHANGED notPred

\* the in-sample for_each has run every lambda to its end
InSampleJoin ==
  /\ pr_phase = "insample"
  /\ \A bid \in DOMAIN pr_i : pr_i[bid] = Len(InSampleWrites(pr_args, bid))
  /\ pr_phase' = IF num_steps(pr_args) # 0 THEN "forecast" ELSE "release"
  /\ pr_i' = [bid \in DOMAIN pr_i |-> 0]
  /\ UNCHANGED <<pr_args, pr_out, pr_bufs, pr_oob>>
  /\ UNCHANGED notPred

\* one store of the forecast-copy lambda of series bid
ForecastStep(bid) ==
  /\ pr_phase = "forecast"
  /\ pr_i[bid] < Len(ForecastWrites(pr_args, bid))
  /\ LET w == ForecastWrites(pr_args, bid)[pr_i[bid] + 1]
     IN  /\ pr_out' = Store(pr_out, w[1], w[2])
         /\ pr_oob' = (pr_oob \/ w[1] \notin DOMAIN pr_out)
  /\ pr_i' = [pr_i EXCEPT ![bid] = @ + 1]
  /\ UNCHANGED <<pr_phase, pr_args, pr_bufs>>
  /\ UNCHANGED notPred

\* the forecast for_each has finished; d_y_fc is deallocated
ForecastJoin ==
  /\ pr_phase = "forecast"
  /\ \A bid \in DOMAIN pr_i : pr_i[bid] = Len(ForecastWrites(pr_args, bid))
  /\ pr_bufs' = Append(pr_bufs,
                        Deallocate("d_y_fc",
                                   num_steps(pr_args) * pr_args.batch_size))
  /\ pr_phase' = "release"
  /\ UNCHANGED <<pr_args, pr_out, pr_i, pr_oob>>
  /\ UNCHANGED notPred

\* deallocation of d_y_prep and return
PredictReturn ==
  /\ pr_phase = "release"
  /\ pr_bufs' = Append(pr_bufs,
                        Deallocate("d_y_prep",
                                   ld_yprep(pr_args) * pr_args.batch_size))
  /\ pr_phase' = "done"
  /\ UNCHANGED <<pr_args, pr_out, pr_i, pr_oob>>
  /\ UNCHANGED notPred

(***************************************************************************)
(* fit: pack the start point, inverse transform, sanity check, batched     *)
(* L-BFGS-B, forward transform, unpack.                                    *)
(***************************************************************************)

\* codes of AR / MA coefficients handed to fit: 101 lies inside the
\* stationary / invertible region, 199 outside of it
CoefVals == {101, 199}

\* the start value of mu of series i: a number, or NaN
MuVals(i) == {i, NaNV}

\* optimizer status of one series: 0 ok, 1 and 2 the optimizer had trouble
FlagVals == {0, 1, 2}

NiterVals == {1, 2}

\* forward transform of one unconstrained value
JonesCode(v) == v + 100

\* inverse transform of one coefficient inside the region
InvJonesCode(c) == c - 100

\* the backward recursion leaves (-1, 1): the coefficient is not valid
InvalidCoef(c) == c >= 199

\* batched_jones_transform over the flat vector: the d leading slots of a
\* series (mu) pass through, the AR and MA blocks are transformed; the
\* inverse replaces a block holding an invalid coefficient by zeros
batched_transform(p, d, q, nb, x, isInv) ==
  [n \in 1..Len(x) |->
     LET N == d + p + q
         base == ((n - 1) \div N) * N
         j == ((n - 1) % N) + 1
         arBad == \E k \in 1..p : InvalidCoef(x[base + d + k])
         maBad == \E k \in 1..q : InvalidCoef(x[base + d + p + k])
     IN  IF j <= d THEN x[n]
         ELSE IF ~isInv THEN JonesCode(x[n])
         ELSE IF j <= d + p THEN (IF arBad THEN 0 ELSE InvJonesCode(x[n]))
         ELSE (IF maBad THEN 0 ELSE InvJonesCode(x[n]))]

batch_trans(p, d, q, nb, x) == batched_transform(p, d, q, nb, x, FALSE)

batch_invtrans(p, d, q, nb, x) == batched_transform(p, d, q, nb, x, TRUE)

\* np.isnan(x0).any() or np.isinf(x0).any()
HasNaNOrInf(x) == \E n \in 1..Len(x) : x[n] = NaNV

\* the last iterates batched_fmin_lbfgs_b may return for a vector of length n
Iterates(n) == {[k \in 1..n |-> b + k] : b \in {0, 20}}

NoModel == [order |-> <<>>, mu |-> <<>>, ar_params |-> <<>>,
            ma_params |-> <<>>, niter |-> 0]

\* ARIMAModel(num_batches*[order], mu, ar, ma, y) with niter recorded
ARIMAModel(order, nb, mu, ar, ma, niter) ==
  [order |-> [i \in 1..nb |-> order], mu |-> mu, ar_params |-> ar,
   ma_params |-> ma, niter |-> niter]

FitIdle ==
  /\ ft_pc = "idle"
  /\ ft_order = <<0, 0, 0>>
  /\ ft_nb = 0
  /\ ft_params0 = [mu |-> <<>>, ar |-> <<>>, ma |-> <<>>]
  /\ ft_x = <<>>
  /\ ft_flags = <<>>
  /\ ft_niter = 0
  /\ ft_model = NoModel

FitInit ==
  /\ ft_pc = "start"
  /\ ft_order \in (0..MaxOrder) \X (0..2) \X (0..MaxOrder)
  /\ ft_nb \in 1..MaxNb
  /\ ft_params0 \in
       [mu : {m \in [1..ft_nb -> {NaNV} \cup (1..ft_nb)] :
                \A i \in 1..ft_nb : m[i] \in MuVals(i)},
        ar : IF ft_order[1] > 0
             THEN [1..ft_nb -> SeqsOfLen(CoefVals, ft_order[1])]
             ELSE {<<>>},
        ma : [1..ft_nb -> SeqsOfLen(CoefVals, ft_order[3])]]
  /\ ft_x = <<>>
  /\ ft_flags = <<>>
  /\ ft_niter = 0
  /\ ft_model = NoModel

\* x0 = batch_invtrans(pack(...)); raise FloatingPointError when x0 has a
\* NaN or Inf
FitPrepare ==
  /\ ft_pc = "start"
  /\ LET p == ft_order[1]
         d == ft_order[2]
         q == ft_order[3]
         x0 == batch_invtrans(p, d, q, ft_nb,
                 pack(p, d, q, ft_nb, ft_params0.mu, ft_params0.ar,
                      ft_params0.ma))
     IN  /\ ft_x' = x0
         /\ ft_pc' = IF HasNaNOrInf(x0) THEN "FloatingPointError"
                     ELSE "optimize"
  /\ UNCHANGED <<ft_order, ft_nb, ft_params0, ft_flags, ft_niter, ft_model>>
  /\ UNCHANGED notFit

\* a faulty variant of FitFinishOn: a non-zero flag is raised as an error
FitFinishOnRaise(x, niter, flags) ==
  LET p == ft_order[1]
      d == ft_order[2]
      q == ft_order[3]
      Tx == batch_trans(p, d, q, ft_nb, x)
      u == unpack(p, d, q, ft_nb, Tx)
      failed == \E i \in 1..ft_nb : flags[i] # 0
  IN  /\ ft_x' = x
      /\ ft_flags' = flags
      /\ ft_niter' = niter
      /\ ft_model' = IF failed THEN NoModel
                     ELSE ARIMAModel(ft_order, ft_nb, u.mu, u.ar, u.ma, niter)
      /\ ft_pc' = IF failed THEN "RuntimeError" ELSE "done"

\* the code of fit after batched_fmin_lbfgs_b has returned (x, niter, flags)
FitFinishOn(x, niter, flags) ==
  LET p == ft_order[1]
      d == ft_order[2]
      q == ft_order[3]
      Tx == batch_trans(p, d, q, ft_nb, x)
      u == unpack(p, d, q, ft_nb, Tx)
  IN  /\ ft_x' = x
      /\ ft_flags' = flags
      /\ ft_niter' = niter
      /\ ft_model' = ARIMAModel(ft_order, ft_nb, u.mu, u.ar, u.ma, niter)
      /\ ft_pc' = "done"

\* batched_fmin_lbfgs_b returns its last iterate, iteration count and flags;
\* fit warns on non-zero flags, transforms, unpacks and returns the model
FitFinish ==
  /\ ft_pc = "optimize"
  /\ \E x \in Iterates(Len(ft_x)), niter \in NiterVals,
        flags \in [1..ft_nb -> FlagVals] :
       FitFinishOn(x, niter, flags)
  /\ UNCHANGED <<ft_order, ft_nb, ft_params0>>
  /\ UNCHANGED notFit

(***************************************************************************)
(* grid_search: fit every (p, d, q) with p < max_p, q < max_q except       *)
(* (0, d, 0) and keep, per series, the candidate of lowest IC.             *)
(* gs_min and gs_argmin are history variables: per series, the lowest      *)
(* finite IC among the candidates fitted so far and the orders reaching it.*)
(***************************************************************************)
MaxGrid == 2

\* +infinity as an information criterion
InfIC == 99

\* np.finfo(np.float64).max / 2
BigIC == 50

\* the information criteria a fitted candidate may report for one series
ICVals == {1, 2, InfIC, NaNV}

MethodVals == {"aic", "bic", "aicc"}

\* no finite IC seen yet
NoIC == 0

\* IEEE comparison a < b: false as soon as one side is NaN
FloatLt(a, b) == a # NaNV /\ b # NaNV /\ a < b

IsFailedIC(v) == v = NaNV \/ v = InfIC

\* the k-th (p, q) of "for p in range(0, max_p): for q in range(0, max_q)"
GridOrder(a, k) == <<(k - 1) \div a.max_q, a.d, (k - 1) % a.max_q>>

GridLen(a) == a.max_p * a.max_q

\* parameters of series i in the model fitted for order ord
FittedMu(ord, i) == 100 * ord[1] + 10 * ord[3] + i

FittedAr(ord, i) == [j \in 1..ord[1] |-> 1000 + FittedMu(ord, i) + j]

FittedMa(ord, i) == [j \in 1..ord[3] |-> 2000 + FittedMu(ord, i) + j]

\* best_model = ARIMAModel([[]]*nb, zeros(nb), [[]]*nb, [[]]*nb, y_b)
EmptyBest(nb) ==
  [order |-> [i \in 1..nb |-> <<>>], mu |-> [i \in 1..nb |-> 0],
   ar_params |-> [i \in 1..nb |-> <<>>], ma_params |-> [i \in 1..nb |-> <<>>]]

\* a faulty variant of UpdateBest: best_ic[i] is not updated
UpdateBestStaleIC(best_ic, best_model, ord, ic) ==
  LET better(i) == FloatLt(ic[i], best_ic[i])
      nb == Len(ic)
  IN  [best_ic |-> best_ic,
       best_model |->
         [order |-> [i \in 1..nb |->
                       IF better(i) THEN ord ELSE best_model.order[i]],
          mu |-> [i \in 1..nb |->
                    IF better(i) THEN FittedMu(ord, i) ELSE best_model.mu[i]],
          ar_params |-> [i \in 1..nb |->
                    IF better(i)
                    THEN (IF ord[1] > 0 THEN FittedAr(ord, i) ELSE <<>>)
                    ELSE best_model.ar_params[i]],
          ma_params |-> [i \in 1..nb |->
                    IF better(i)
                    THEN (IF ord[3] > 0 THEN FittedMa(ord, i) ELSE <<>>)
                    ELSE best_model.ma_params[i]]]]

\* a faulty variant of UpdateBest: the rows of ar_params and ma_params are
\* one shared list, so an update for one series shows in every series
UpdateBestSharedRows(best_ic, best_model, ord, ic) ==
  LET better(i) == FloatLt(ic[i], best_ic[i])
      nb == Len(ic)
      any == \E i \in 1..nb : better(i)
      last == CHOOSE i \in 1..nb :
                better(i) /\ \A j \in 1..nb : better(j) => j <= i
  IN  [best_ic |-> [i \in 1..nb |-> IF better(i) THEN ic[i] ELSE best_ic[i]],
       best_model |->
         [order |-> [i \in 1..nb |->
                       IF better(i) THEN ord ELSE best_model.order[i]],
          mu |-> [i \in 1..nb |->
                    IF better(i) THEN FittedMu(ord, i) ELSE best_model.mu[i]],
          ar_params |-> [i \in 1..nb |->
                    IF any
                    THEN (IF ord[1] > 0 THEN FittedAr(ord, last) ELSE <<>>)
                    ELSE best_model.ar_params[i]],
          ma_params |-> [i \in 1..nb |->
                    IF any
                    THEN (IF ord[3] > 0 THEN FittedMa(ord, last) ELSE <<>>)
                    ELSE best_model.ma_params[i]]]]

\* "if ic_i < best_ic[i]: ..." for every series, on the candidate ord with
\* criteria ic; returns the new best_ic and best_model
UpdateBest(best_ic, best_model, ord, ic) ==
  LET better(i) == FloatLt(ic[i], best_ic[i])
      nb == Len(ic)
  IN  [best_ic |-> [i \in 1..nb |-> IF better(i) THEN ic[i] ELSE best_ic[i]],
       best_model |->
         [order |-> [i \in 1..nb |->
                       IF better(i) THEN ord ELSE best_model.order[i]],
          mu |-> [i \in 1..nb |->
                    IF better(i) THEN FittedMu(ord, i) ELSE best_model.mu[i]],
          ar_params |-> [i \in 1..nb |->
                    IF better(i)
                    THEN (IF ord[1] > 0 THEN FittedAr(ord, i) ELSE <<>>)
                    ELSE best_model.ar_params[i]],
          ma_params |-> [i \in 1..nb |->
                    IF better(i)
                    THEN (IF ord[3] > 0 THEN FittedMa(ord, i) ELSE <<>>)
                    ELSE best_model.ma_params[i]]]]

GridIdle ==
  /\ gs_pc = "idle"
  /\ gs_args = [nb |-> 0, d |-> 0, max_p |-> 0, max_q |-> 0, method |-> ""]
  /\ gs_k = 0
  /\ gs_best_ic = <<>>
  /\ gs_best_model = EmptyBest(0)
  /\ gs_min = <<>>
  /\ gs_argmin = <<>>

GridInit ==
  /\ gs_pc = "loop"
  /\ gs_args \in [nb : 1..MaxNb, d : 0..1, max_p : 0..MaxGrid,
                  max_q : 0..MaxGrid, method : MethodVals]
  /\ gs_k = 1
  /\ gs_best_ic = [i \in 1..gs_args.nb |-> BigIC]
  /\ gs_best_model = EmptyBest(gs_args.nb)
  /\ gs_min = [i \in 1..gs_args.nb |-> NoIC]
  /\ gs_argmin = [i \in 1..gs_args.nb |-> {}]

\* "if p == 0 and q == 0: continue"
GridSkip ==
  /\ gs_pc = "loop"
  /\ gs_k <= GridLen(gs_args)
  /\ GridOrder(gs_args, gs_k)[1] = 0 /\ GridOrder(gs_args, gs_k)[3] = 0
  /\ gs_k' = gs_k + 1
  /\ UNCHANGED <<gs_pc, gs_args, gs_best_ic, gs_best_model, gs_min, gs_argmin>>
  /\ UNCHANGED notGrid

GridCandidateGuard ==
  /\ gs_pc = "loop"
  /\ gs_k <= GridLen(gs_args)
  /\ ~(GridOrder(gs_args, gs_k)[1] = 0 /\ GridOrder(gs_args, gs_k)[3] = 0)

\* fit(y_b, (p, d, q), ...) raises (x0 of one series has a NaN or Inf): the
\* exception leaves grid_search
GridFitRaises ==
  /\ GridCandidateGuard
  /\ gs_pc' = "FloatingPointError"
  /\ UNCHANGED <<gs_args, gs_k, gs_best_ic, gs_best_model, gs_min, gs_argmin>>
  /\ UNCHANGED notGrid

\* the candidate was fitted, method is neither "aic" nor "bic"
GridBadMethod ==
  /\ GridCandidateGuard
  /\ gs_args.method \notin {"aic", "bic"}
  /\ gs_pc' = "NotImplementedError"
  /\ UNCHANGED <<gs_args, gs_k, gs_best_ic, gs_best_model, gs_min, gs_argmin>>
  /\ UNCHANGED notGrid

\* the candidate was fitted and reports the criteria ic: per-series update
GridCandidate ==
  /\ GridCandidateGuard
  /\ gs_args.method \in {"aic", "bic"}
  /\ \E ic \in [1..gs_args.nb -> ICVals] :
       LET ord == GridOrder(gs_args, gs_k)
           u == UpdateBest(gs_best_ic, gs_best_model, ord, ic)
       IN  /\ gs_best_ic' = u.best_ic
           /\ gs_best_model' = u.best_model
           /\ gs_min' = [i \in 1..gs_args.nb |->
                IF IsFailedIC(ic[i]) THEN gs_min[i]
                ELSE IF gs_min[i] = NoIC \/ ic[i] < gs_min[i] THEN ic[i]
                ELSE gs_min[i]]
           /\ gs_argmin' = [i \in 1..gs_args.nb |->
                IF IsFailedIC(ic[i]) THEN gs_argmin[i]
                ELSE IF gs_min[i] = NoIC \/ ic[i] < gs_min[i] THEN {ord}
                ELSE IF ic[i] = gs_min[i] THEN gs_argmin[i] \cup {ord}
                ELSE gs_argmin[i]]
  /\ gs_k' = gs_k + 1
  /\ UNCHANGED <<gs_pc, gs_args>>
  /\ UNCHANGED notGrid

\* "return (best_model, best_ic)"
GridReturn ==
  /\ gs_pc = "loop"
  /\ gs_k > GridLen(gs_args)
  /\ gs_pc' = "done"
  /\ UNCHANGED <<gs_args, gs_k, gs_best_ic, gs_best_model, gs_min, gs_argmin>>
  /\ UNCHANGED notGrid

(***************************************************************************)
(* AutoARIMA: fit partitions the batch by D, then by (d, D), grid-searches *)
(* (p, q, P, Q) per bucket, divides each bucket by the best candidate and  *)
(* fits the final models; predict merges the per-model predictions.        *)
(* A sub-batch is the sequence of its series (data) with the sequence of   *)
(* their original indices (ids); None is the empty sequence.  A dict is    *)
(* the sequence of its entries in insertion order.                         *)
(* An argument of fit is drawn by the step that first reads it and is      *)
(* kept as long as a later step reads it; likewise n_obs of the input.     *)
(* aa_log is a history variable: the ARIMA models constructed and fitted.  *)
(***************************************************************************)
MaxBatch == 2

MaxCand == 2

\* Python's None
NoneV == -1

NObsVals == {99, 100}

SVals == {NoneV, 0, 1, 2, 4}

SearchVals == {"auto", "ml"}

FinalVals == {"ml", "css"}

DArgVals == {NoneV, 0, 1}

dArgVals == {NoneV, 0, 1, 2}

MaxDVals == {0, 1, 2}

TestVals == {"kpss", "adf"}

SeasonalTestVals == {"seas", "ocsb"}

StartVals == {0, 1, 5}

MaxPQVals == {0, 1, 5}

MaxSeasVals == {0, 1}

\* information criteria ARIMA._ic may report for one series
AutoICVals == {1, 2, NaNV}

tests_map == {"kpss", "seas"}

\* the observations of original series i, as a token
DataTok(i) == 10 + i

\* "if s" / "if not s"
Truthy(s) == s # NoneV /\ s # 0

\* the subsequence of seq at the positions n with keep[n]
Filter(seq, keep) ==
  LET F[n \in 0..Len(seq)] ==
        IF n = 0 THEN <<>>
        ELSE IF keep[n] THEN Append(F[n - 1], seq[n]) ELSE F[n - 1]
  IN  F[Len(seq)]

\* divide_by_mask(original, mask, batch_id): sub-batch 0 holds the series
\* with mask false, sub-batch 1 those with mask true, with their indices, in
\* the order of the batch
divide_by_mask(data, mask, ids) ==
  LET not_mask == [n \in 1..Len(data) |-> ~mask[n]]
  IN  [out0 |-> Filter(data, not_mask),
       index0 |-> Filter(ids, not_mask),
       out1 |-> Filter(data, mask),
       index1 |-> Filter(ids, mask)]

\* dict[key] = (data, ids)
DictSet(dict, key, data, ids) ==
  IF \E n \in 1..Len(dict) : dict[n].key = key
  THEN [n \in 1..Len(dict) |->
          IF dict[n].key = key THEN [key |-> key, data |-> data, ids |-> ids]
          ELSE dict[n]]
  ELSE Append(dict, [key |-> key, data |-> data, ids |-> ids])

\* an argument of fit that no step has read yet
Unread == -9

NoArgs == [s |-> Unread, search_method |-> "", d |-> Unread, max_d |-> Unread,
           test |-> "", final_method |-> ""]

\* the values an argument may have: any of vals until its first read, then
\* the value read
ArgInt(cur, vals) == IF cur = Unread THEN vals ELSE {cur}

ArgStr(cur, vals) == IF cur = "" THEN vals ELSE {cur}

\* the maxima the caller passed, kept as history next to the clamped bounds
NoGiven == [max_p |-> 0, max_q |-> 0, max_P |-> 0, max_Q |-> 0]

NoBounds == [start_p |-> 0, max_p |-> 0, start_q |-> 0, max_q |-> 0,
             start_P |-> 0, max_P |-> 0, start_Q |-> 0, max_Q |-> 0,
             given |-> NoGiven]

NoLoop == [i |-> 0, j |-> 0]

NoMap == [id_to_model |-> <<>>, id_to_pos |-> <<>>]

AutoIdle ==
  /\ aa_pc = "idle"
  /\ aa_self = [batch_size |-> 0]
  /\ aa_args = NoArgs
  /\ aa_data_D = <<>>
  /\ aa_data_dD = <<>>
  /\ aa_loop = NoLoop
  /\ aa_temp = <<>>
  /\ aa_bounds = NoBounds
  /\ aa_all_ic = <<>>
  /\ aa_all_orders = <<>>
  /\ aa_models = <<>>
  /\ aa_id_tracker = <<>>
  /\ aa_log = <<>>
  /\ aa_map = NoMap
  /\ aa_out = <<>>

\* AutoARIMA(y): batch_size (and n_obs) are read from the input
AutoInit ==
  /\ aa_pc = "parse"
  /\ aa_self \in [batch_size : 1..MaxBatch]
  /\ aa_args = NoArgs
  /\ aa_data_D = <<>>
  /\ aa_data_dD = <<>>
  /\ aa_loop = NoLoop
  /\ aa_temp = <<>>
  /\ aa_bounds = NoBounds
  /\ aa_all_ic = <<>>
  /\ aa_all_orders = <<>>
  /\ aa_models = <<>>
  /\ aa_id_tracker = <<>>
  /\ aa_log = <<>>
  /\ aa_map = NoMap
  /\ aa_out = <<>>

\* the whole batch with d_index = np.r_[:batch_size]
WholeBatch ==
  [data |-> [n \in 1..aa_self.batch_size |-> DataTok(n - 1)],
   ids |-> [n \in 1..aa_self.batch_size |-> n - 1]]

\* "Parse input parameters": s == 1 becomes None; search_method "auto" is
\* resolved by "n_obs >= 100 and s >= 4", which raises TypeError when the
\* comparison s >= 4 is evaluated on None
AutoParse ==
  /\ aa_pc = "parse"
  /\ \E s \in SVals, sm \in SearchVals, n_obs \in NObsVals :
       LET s1 == IF s = 1 THEN NoneV ELSE s
           typeErr == sm = "auto" /\ n_obs >= 100 /\ s1 = NoneV
           sm1 == IF sm # "auto" \/ typeErr THEN sm
                  ELSE IF n_obs >= 100 /\ s1 >= 4 THEN "css"
                  ELSE "ml"
       IN  /\ aa_args' = [aa_args EXCEPT !.s = s1, !.search_method = sm1]
           /\ aa_pc' = IF typeErr THEN "TypeError" ELSE "chooseD"
  /\ UNCHANGED <<aa_self, aa_data_D, aa_data_dD, aa_loop, aa_temp, aa_bounds,
                 aa_all_ic, aa_all_orders, aa_models, aa_id_tracker, aa_log,
                 aa_map, aa_out>>
  /\ UNCHANGED notAuto

\* "Choose the hyper-parameter D"
AutoChooseD ==
  /\ aa_pc = "chooseD"
  /\ \E D \in DArgVals, seasonal_test \in SeasonalTestVals,
        mask \in [1..aa_self.batch_size -> BOOLEAN] :
       LET dv == divide_by_mask(WholeBatch.data, mask, WholeBatch.ids)
           bad == Truthy(aa_args.s) /\ D = NoneV
                  /\ seasonal_test \notin tests_map
           d0 == IF dv.out0 # <<>>
                 THEN DictSet(<<>>, 0, dv.out0, dv.index0) ELSE <<>>
           d1 == IF dv.out1 # <<>>
                 THEN DictSet(d0, 1, dv.out1, dv.index1) ELSE d0
       IN  /\ aa_data_D' =
                IF ~Truthy(aa_args.s)
                THEN DictSet(<<>>, 0, WholeBatch.data, WholeBatch.ids)
                ELSE IF D # NoneV
                THEN DictSet(<<>>, D, WholeBatch.data, WholeBatch.ids)
                ELSE IF bad THEN <<>>
                ELSE d1
           /\ aa_pc' = IF bad THEN "ValueError" ELSE "choose_d"
  /\ aa_loop' = [i |-> 1, j |-> 0]
  /\ UNCHANGED <<aa_self, aa_args, aa_data_dD, aa_temp, aa_bounds, aa_all_ic,
                 aa_all_orders, aa_models, aa_id_tracker, aa_log, aa_map,
                 aa_out>>
  /\ UNCHANGED notAuto

\* the end of one iteration of "for D_ in data_D" with the arguments a;
\* after the last one, "del data_D" and the clamping of the bounds follow,
\* and nothing reads d, max_d and test any more
NextD(a) ==
  IF aa_loop.i < Len(aa_data_D)
  THEN /\ aa_loop' = [i |-> aa_loop.i + 1, j |-> 0]
       /\ aa_pc' = "choose_d"
       /\ aa_data_D' = aa_data_D
       /\ aa_args' = a
  ELSE /\ aa_loop' = NoLoop
       /\ aa_pc' = "clamp"
       /\ aa_data_D' = <<>>
       /\ aa_args' = [a EXCEPT !.d = Unread, !.max_d = Unread, !.test = ""]

\* "d is specified by the user": data_dD[(d, D_)] = data_D[D_]
Auto_d_User ==
  /\ aa_pc = "choose_d"
  /\ \E d \in ArgInt(aa_args.d, dArgVals) :
       /\ d # NoneV
       /\ LET b == aa_data_D[aa_loop.i]
          IN  aa_data_dD' = DictSet(aa_data_dD, <<d, b.key>>, b.data, b.ids)
       /\ NextD([aa_args EXCEPT !.d = d])
  /\ UNCHANGED <<aa_self, aa_temp, aa_bounds, aa_all_ic, aa_all_orders,
                 aa_models, aa_id_tracker, aa_log, aa_map, aa_out>>
  /\ UNCHANGED notAuto

\* "if test not in tests_map: raise ValueError"
Auto_d_BadTest ==
  /\ aa_pc = "choose_d"
  /\ \E d \in ArgInt(aa_args.d, dArgVals), test \in ArgStr(aa_args.test, TestVals) :
       /\ d = NoneV
       /\ test \notin tests_map
       /\ aa_args' = [aa_args EXCEPT !.d = d, !.test = test]
  /\ aa_pc' = "ValueError"
  /\ UNCHANGED <<aa_self, aa_data_D, aa_data_dD, aa_loop, aa_temp, aa_bounds,
                 aa_all_ic, aa_all_orders, aa_models, aa_id_tracker, aa_log,
                 aa_map, aa_out>>
  /\ UNCHANGED notAuto

\* the stop of range(min(max_d, 2 - D_)), the stationarity loop of bucket D_
dLimit(max_d, D_) == Min2(max_d, 2 - D_)

\* (data_temp, id_temp): data_D[D_] before the first test, then out0
CurTemp ==
  IF aa_temp = <<>>
  THEN [data |-> aa_data_D[aa_loop.i].data, ids |-> aa_data_D[aa_loop.i].ids]
  ELSE aa_temp

\* one iteration of "for d_ in range(min(max_d, 2 - D_))": the series the
\* test finds stationary get d = d_, the others go on to the next d_
Auto_d_Test ==
  /\ aa_pc = "choose_d"
  /\ \E d \in ArgInt(aa_args.d, dArgVals), test \in ArgStr(aa_args.test, TestVals),
        max_d \in ArgInt(aa_args.max_d, MaxDVals),
        mask \in [1..Len(CurTemp.ids) -> BOOLEAN] :
       LET D_ == aa_data_D[aa_loop.i].key
           dv == divide_by_mask(CurTemp.data, mask, CurTemp.ids)
       IN  /\ d = NoneV
           /\ test \in tests_map
           /\ aa_loop.j < dLimit(max_d, D_)
           /\ aa_data_dD' =
                IF dv.out1 # <<>>
                THEN DictSet(aa_data_dD, <<aa_loop.j, D_>>, dv.out1, dv.index1)
                ELSE aa_data_dD
           /\ IF dv.out0 # <<>>
              THEN /\ aa_temp' = [data |-> dv.out0, ids |-> dv.index0]
                   /\ aa_loop' = [aa_loop EXCEPT !.j = @ + 1]
                   /\ aa_args' = [aa_args EXCEPT !.d = d, !.test = test,
                                                 !.max_d = max_d]
                   /\ UNCHANGED <<aa_pc, aa_data_D>>
              ELSE /\ aa_temp' = <<>>
                   /\ NextD([aa_args EXCEPT !.d = d, !.test = test,
                                            !.max_d = max_d])
  /\ UNCHANGED <<aa_self, aa_bounds, aa_all_ic, aa_all_orders, aa_models,
                 aa_id_tracker, aa_log, aa_map, aa_out>>
  /\ UNCHANGED notAuto

\* the else of the for loop: the remaining series get the largest d; the
\* del that follows raises UnboundLocalError when the loop body never ran
Auto_d_Else ==
  /\ aa_pc = "choose_d"
  /\ \E d \in ArgInt(aa_args.d, dArgVals), test \in ArgStr(aa_args.test, TestVals),
        max_d \in ArgInt(aa_args.max_d, MaxDVals) :
       LET D_ == aa_data_D[aa_loop.i].key
       IN  /\ d = NoneV
           /\ test \in tests_map
           /\ aa_loop.j = dLimit(max_d, D_)
           /\ aa_data_dD' = DictSet(aa_data_dD, <<dLimit(max_d, D_), D_>>,
                                    CurTemp.data, CurTemp.ids)
           /\ IF dLimit(max_d, D_) = 0
              THEN /\ aa_pc' = "UnboundLocalError"
                   /\ aa_args' = [aa_args EXCEPT !.d = d, !.test = test,
                                                 !.max_d = max_d]
                   /\ UNCHANGED <<aa_loop, aa_data_D, aa_temp>>
              ELSE /\ aa_temp' = <<>>
                   /\ NextD([aa_args EXCEPT !.d = d, !.test = test,
                                            !.max_d = max_d])
  /\ UNCHANGED <<aa_self, aa_bounds, aa_all_ic, aa_all_orders, aa_models,
                 aa_id_tracker, aa_log, aa_map, aa_out>>
  /\ UNCHANGED notAuto

\* a faulty variant of ClampBounds: max_p and max_q are not limited by the
\* seasonal period
ClampBoundsNoPeriod(s, u) ==
  LET max_p == Min2(u.max_p, 4)
      max_q == Min2(u.max_q, 4)
  IN  [max_p |-> max_p,
       max_q |-> max_q,
       max_P |-> IF Truthy(s) THEN Min2(u.max_P, 4) ELSE 0,
       max_Q |-> IF Truthy(s) THEN Min2(u.max_Q, 4) ELSE 0,
       start_p |-> Min2(u.start_p, max_p),
       start_q |-> Min2(u.start_q, max_p),
       start_P |-> Min2(u.start_P, max_p),
       start_Q |-> Min2(u.start_Q, max_p)]

\* "Limit the number of parameters to what we can handle"
ClampBounds(s, u) ==
  LET max_p0 == Min2(u.max_p, 4)
      max_q0 == Min2(u.max_q, 4)
      max_p == IF Truthy(s) THEN Min2(max_p0, s - 1) ELSE max_p0
      max_q == IF Truthy(s) THEN Min2(max_q0, s - 1) ELSE max_q0
  IN  [max_p |-> max_p,
       max_q |-> max_q,
       max_P |-> IF Truthy(s) THEN Min2(u.max_P, 4) ELSE 0,
       max_Q |-> IF Truthy(s) THEN Min2(u.max_Q, 4) ELSE 0,
       start_p |-> Min2(u.start_p, max_p),
       start_q |-> Min2(u.start_q, max_p),
       start_P |-> Min2(u.start_P, max_p),
       start_Q |-> Min2(u.start_Q, max_p)]

\* len(range(start, max + 1))
RangeLen(start, max) == IF max + 1 > start THEN max + 1 - start ELSE 0

\* the number of iterations of the four nested loops over (p, q, P, Q)
LoopLen(b) ==
  RangeLen(b.start_p, b.max_p) * RangeLen(b.start_q, b.max_q)
    * RangeLen(b.start_P, b.max_P) * RangeLen(b.start_Q, b.max_Q)

\* (p_, q_, P_, Q_) of the j-th iteration of the nested loops
LoopOrder(b, j) ==
  LET nq == RangeLen(b.start_q, b.max_q)
      nP == RangeLen(b.start_P, b.max_P)
      nQ == RangeLen(b.start_Q, b.max_Q)
  IN  <<b.start_p + ((j - 1) \div (nq * nP * nQ)),
        b.start_q + (((j - 1) \div (nP * nQ)) % nq),
        b.start_P + (((j - 1) \div nQ) % nP),
        b.start_Q + ((j - 1) % nQ)>>

UserBounds ==
  [start_p : StartVals, max_p : MaxPQVals, start_q : StartVals,
   max_q : MaxPQVals, start_P : StartVals, max_P : MaxSeasVals,
   start_Q : StartVals, max_Q : MaxSeasVals]

\* the clamped bounds b with the maxima of the bounds u the caller passed
WithGiven(b, u) ==
  [start_p |-> b.start_p, max_p |-> b.max_p, start_q |-> b.start_q,
   max_q |-> b.max_q, start_P |-> b.start_P, max_P |-> b.max_P,
   start_Q |-> b.start_Q, max_Q |-> b.max_Q,
   given |-> [max_p |-> u.max_p, max_q |-> u.max_q, max_P |-> u.max_P,
              max_Q |-> u.max_Q]]

\* the bounds are clamped in place; grids of more than MaxCand iterations
\* are left out of the model
AutoClamp ==
  /\ aa_pc = "clamp"
  /\ \E u \in UserBounds :
       /\ LoopLen(ClampBounds(aa_args.s, u)) <= MaxCand
       /\ aa_bounds' = WithGiven(ClampBounds(aa_args.s, u), u)
  /\ aa_pc' = "grid"
  /\ aa_loop' = [i |-> 1, j |-> 1]
  /\ UNCHANGED <<aa_self, aa_args, aa_data_D, aa_data_dD, aa_temp, aa_all_ic,
                 aa_all_orders, aa_models, aa_id_tracker, aa_log, aa_map,
                 aa_out>>
  /\ UNCHANGED notAuto

\* a faulty variant of InterceptOf: the intercept is kept up to d + D = 2
InterceptUpTo2(d_, D_) == IF d_ + D_ <= 2 THEN 1 ELSE 0

\* k_ = 1 if d_ + D_ <= 1 else 0
InterceptOf(d_, D_) == IF d_ + D_ <= 1 THEN 1 ELSE 0

\* the bucket (d_, D_) of the current iteration of "for (d_, D_) in data_dD"
CurBucket == aa_data_dD[aa_loop.i]

CurK == InterceptOf(CurBucket.key[1], CurBucket.key[2])

\* a faulty variant of SkipOrder: no order is skipped
SkipOrderNever(o, k_) == FALSE

\* "if p_ + q_ + P_ + Q_ + k_ == 0: continue"
SkipOrder(o, k_) == o[1] + o[2] + o[3] + o[4] + k_ = 0

\* an ARIMA object: the series it holds, its order and the methods it has
\* been fitted with
ARIMA(data, order, seasonal_order, fit_intercept) ==
  [data |-> data, order |-> order, seasonal_order |-> seasonal_order,
   fit_intercept |-> fit_intercept, fitted |-> <<>>]

\* entry of aa_log: model was fitted with method during the given stage
LogFit(stage, model, method) ==
  [stage |-> stage, order |-> model.order,
   seasonal_order |-> model.seasonal_order,
   fit_intercept |-> model.fit_intercept, data |-> model.data,
   method |-> method]

AutoSkip ==
  /\ aa_pc = "grid"
  /\ aa_loop.j <= LoopLen(aa_bounds)
  /\ SkipOrder(LoopOrder(aa_bounds, aa_loop.j), CurK)
  /\ aa_loop' = [aa_loop EXCEPT !.j = @ + 1]
  /\ UNCHANGED <<aa_pc, aa_self, aa_args, aa_data_D, aa_data_dD, aa_temp,
                 aa_bounds, aa_all_ic, aa_all_orders, aa_models,
                 aa_id_tracker, aa_log, aa_map, aa_out>>
  /\ UNCHANGED notAuto

\* the candidate of one loop iteration: (model, entry of all_orders)
Candidate(b, j, bucket, s) ==
  LET o == LoopOrder(b, j)
      d_ == bucket.key[1]
      D_ == bucket.key[2]
      k_ == InterceptOf(d_, D_)
      s_ == IF o[3] + D_ + o[4] # 0 THEN s ELSE 0
  IN  [model |-> ARIMA(bucket.data, <<o[1], d_, o[2]>>,
                       <<o[3], D_, o[4], s_>>, k_),
       entry |-> <<o[1], o[2], o[3], o[4], s_, k_>>]

\* one candidate: construct the model on the whole bucket, fit it with the
\* search method, record its information criteria and its order
AutoFitCandidate ==
  /\ aa_pc = "grid"
  /\ aa_loop.j <= LoopLen(aa_bounds)
  /\ ~SkipOrder(LoopOrder(aa_bounds, aa_loop.j), CurK)
  /\ \E ic \in [1..Len(CurBucket.ids) -> AutoICVals] :
       LET c == Candidate(aa_bounds, aa_loop.j, CurBucket, aa_args.s)
       IN  /\ aa_all_ic' = Append(aa_all_ic, ic)
           /\ aa_all_orders' = Append(aa_all_orders, c.entry)
           /\ aa_log' = Append(aa_log, LogFit("search", c.model,
                                              aa_args.search_method))
  /\ aa_loop' = [aa_loop EXCEPT !.j = @ + 1]
  /\ UNCHANGED <<aa_pc, aa_self, aa_args, aa_data_D, aa_data_dD, aa_temp,
                 aa_bounds, aa_models, aa_id_tracker, aa_map, aa_out>>
  /\ UNCHANGED notAuto

\* a failed candidate (NaN) counts as +infinity
ICScore(v) == IF v = NaNV THEN InfIC ELSE v

\* the column (candidate) of lowest criterion of series n, the first one on
\* a tie
ArgMinIC(all_ic, n) ==
  CHOOSE c \in 1..Len(all_ic) :
    /\ \A c2 \in 1..Len(all_ic) : ICScore(all_ic[c][n]) <= ICScore(all_ic[c2][n])
    /\ \A c2 \in 1..(c - 1) : ICScore(all_ic[c2][n]) > ICScore(all_ic[c][n])

\* divide_by_min(original, metrics, batch_id): sub-batch c holds the series
\* whose lowest criterion is in column c, with their indices
divide_by_min(data, all_ic, ids) ==
  LET chose(c) == [n \in 1..Len(data) |-> ArgMinIC(all_ic, n) = c]
  IN  [sub_batches |-> [c \in 1..Len(all_ic) |-> Filter(data, chose(c))],
       sub_id |-> [c \in 1..Len(all_ic) |-> Filter(ids, chose(c))]]

\* a faulty variant of AppendModels: the index array of the first candidate
\* is recorded for every final model
AppendModelsFirstIds(models, id_tracker, dv, all_orders, bucket) ==
  LET R[c \in 0..Len(all_orders)] ==
        IF c = 0 THEN [models |-> models, id_tracker |-> id_tracker]
        ELSE IF dv.sub_batches[c] = <<>> THEN R[c - 1]
        ELSE LET e == all_orders[c]
             IN  [models |->
                    Append(R[c - 1].models,
                           ARIMA(dv.sub_batches[c],
                                 <<e[1], bucket.key[1], e[2]>>,
                                 <<e[3], bucket.key[2], e[4], e[5]>>, e[6])),
                  id_tracker |-> Append(R[c - 1].id_tracker, dv.sub_id[1])]
  IN  R[Len(all_orders)]

\* a faulty variant of AppendModels: every final model is constructed on the
\* whole bucket instead of the sub-batch that selected its order
AppendModelsWholeBucket(models, id_tracker, dv, all_orders, bucket) ==
  LET R[c \in 0..Len(all_orders)] ==
        IF c = 0 THEN [models |-> models, id_tracker |-> id_tracker]
        ELSE IF dv.sub_batches[c] = <<>> THEN R[c - 1]
        ELSE LET e == all_orders[c]
             IN  [models |->
                    Append(R[c - 1].models,
                           ARIMA(bucket.data,
                                 <<e[1], bucket.key[1], e[2]>>,
                                 <<e[3], bucket.key[2], e[4], e[5]>>, e[6])),
                  id_tracker |-> Append(R[c - 1].id_tracker, dv.sub_id[c])]
  IN  R[Len(all_orders)]

\* "for i in range(n_models): if sub_batches[i] is None: continue;
\*  self.models.append(ARIMA(...)); id_tracker.append(sub_id[i])"
AppendModels(models, id_tracker, dv, all_orders, bucket) ==
  LET R[c \in 0..Len(all_orders)] ==
        IF c = 0 THEN [models |-> models, id_tracker |-> id_tracker]
        ELSE IF dv.sub_batches[c] = <<>> THEN R[c - 1]
        ELSE LET e == all_orders[c]
             IN  [models |->
                    Append(R[c - 1].models,
                           ARIMA(dv.sub_batches[c],
                                 <<e[1], bucket.key[1], e[2]>>,
                                 <<e[3], bucket.key[2], e[4], e[5]>>, e[6])),
                  id_tracker |-> Append(R[c - 1].id_tracker, dv.sub_id[c])]
  IN  R[Len(all_orders)]

\* the grid of the bucket is complete: build the IC matrix (concatenate
\* raises ValueError on an empty list), divide the bucket by the best
\* candidate and construct the final models
AutoDivide ==
  /\ aa_pc = "grid"
  /\ aa_loop.j > LoopLen(aa_bounds)
  /\ IF aa_all_orders = <<>>
     THEN /\ aa_pc' = "ValueError"
          /\ UNCHANGED <<aa_loop, aa_models, aa_id_tracker, aa_all_ic,
                         aa_all_orders>>
     ELSE LET dv == divide_by_min(CurBucket.data, aa_all_ic, CurBucket.ids)
              r == AppendModels(aa_models, aa_id_tracker, dv, aa_all_orders,
                                CurBucket)
          IN  /\ aa_models' = r.models
              /\ aa_id_tracker' = r.id_tracker
              /\ aa_all_ic' = <<>>
              /\ aa_all_orders' = <<>>
              /\ IF aa_loop.i < Len(aa_data_dD)
                 THEN /\ aa_loop' = [i |-> aa_loop.i + 1, j |-> 1]
                      /\ aa_pc' = "grid"
                 ELSE /\ aa_loop' = [i |-> 1, j |-> 0]
                      /\ aa_pc' = "final"
  /\ UNCHANGED <<aa_self, aa_args, aa_data_D, aa_data_dD, aa_temp, aa_bounds,
                 aa_log, aa_map, aa_out>>
  /\ UNCHANGED notAuto

\* model.fit(method): the model records the method it was fitted with
FitModel(model, method) == [model EXCEPT !.fitted = Append(@, method)]

\* one iteration of "for model in self.models: model.fit(method=final_method)"
AutoFinalFit ==
  /\ aa_pc = "final"
  /\ aa_loop.i <= Len(aa_models)
  /\ \E fm \in ArgStr(aa_args.final_method, FinalVals) :
       /\ aa_args' = [aa_args EXCEPT !.final_method = fm]
       /\ aa_models' = [aa_models EXCEPT ![aa_loop.i] = FitModel(@, fm)]
       /\ aa_log' = Append(aa_log, LogFit("final", aa_models[aa_loop.i], fm))
  /\ aa_loop' = [aa_loop EXCEPT !.i = @ + 1]
  /\ UNCHANGED <<aa_pc, aa_self, aa_data_D, aa_data_dD, aa_temp, aa_bounds,
                 aa_all_ic, aa_all_orders, aa_id_tracker, aa_map, aa_out>>
  /\ UNCHANGED notAuto

\* build_division_map(id_tracker, batch_size): for every original index,
\* the model whose index array holds it and its position there (0-based)
build_division_map(id_tracker, batch_size) ==
  LET Holds(i, m, n) == n \in 1..Len(id_tracker[m]) /\ id_tracker[m][n] = i
      Place(i) ==
        IF \E m \in 1..Len(id_tracker), n \in 1..MaxBatch : Holds(i, m, n)
        THEN CHOOSE mn \in (1..Len(id_tracker)) \X (1..MaxBatch) :
               Holds(i, mn[1], mn[2])
        ELSE <<0, 0>>
  IN  [id_to_model |-> [i \in 0..(batch_size - 1) |-> Place(i)[1] - 1],
       id_to_pos |-> [i \in 0..(batch_size - 1) |-> Place(i)[2] - 1]]

\* the end of fit: build the map from series to (model, position)
AutoBuildMap ==
  /\ aa_pc = "final"
  /\ aa_loop.i > Len(aa_models)
  /\ aa_map' = build_division_map(aa_id_tracker, aa_self.batch_size)
  /\ aa_pc' = "fitted"
  /\ aa_loop' = NoLoop
  /\ UNCHANGED <<aa_self, aa_args, aa_data_D, aa_data_dD, aa_temp, aa_bounds,
                 aa_all_ic, aa_all_orders, aa_models, aa_id_tracker, aa_log,
                 aa_out>>
  /\ UNCHANGED notAuto

\* the prediction model number m (0-based) returns for the series data
PredictionOf(m, data) == <<m, data>>

\* a faulty variant of Predictions: each prediction is inserted at the front
\* of the list
PredictionsReversed(models) ==
  [m \in 1..Len(models) |->
     [n \in 1..Len(models[Len(models) + 1 - m].data) |->
        PredictionOf(Len(models) - m, models[Len(models) + 1 - m].data[n])]]

\* "for model in self.models: predictions.append(model.predict(start, end))"
Predictions(models) ==
  [m \in 1..Len(models) |->
     [n \in 1..Len(models[m].data) |->
        PredictionOf(m - 1, models[m].data[n])]]

\* merge_series(predictions, id_to_model, id_to_pos, batch_size)
merge_series(predictions, id_to_model, id_to_pos, batch_size) ==
  [i \in 0..(batch_size - 1) |->
     IF id_to_model[i] + 1 \in DOMAIN predictions
        /\ id_to_pos[i] + 1 \in DOMAIN predictions[id_to_model[i] + 1]
     THEN predictions[id_to_model[i] + 1][id_to_pos[i] + 1]
     ELSE <<NoneV, NoneV>>]

\* predict: the predictions of every model, merged in batch order
AutoPredict ==
  /\ aa_pc = "fitted"
  /\ aa_out' = merge_series(Predictions(aa_models), aa_map.id_to_model,
                            aa_map.id_to_pos, aa_self.batch_size)
  /\ aa_pc' = "predicted"
  /\ UNCHANGED <<aa_self, aa_args, aa_data_D, aa_data_dD, aa_loop, aa_temp,
                 aa_bounds, aa_all_ic, aa_all_orders, aa_models,
                 aa_id_tracker, aa_log, aa_map>>
  /\ UNCHANGED notAuto


(***************************************************************************)
(* _start_params: the initial estimate of the parameters by least squares, *)
(* first of the non-seasonal ARMA part, then of the seasonal one.          *)
(* Coefficients are numbers in units of 1 / Unit; the recursion of         *)
(* test_invparams computes on rationals <<numerator, denominator>>.        *)
(***************************************************************************)

\* 1.0 in coefficient units
Unit == 4

\* p and q of the order handed to _start_params
EstPQVals == {0, 1, 2}

\* P and Q
EstSeasVals == {0, 1}

\* the seasonal period of an order with seasonal terms
EstPeriod == 4

\* the number of rows of bm_y (the differenced series)
EstObsVals == {2, 5, 13, 15, 20}

\* the blocks of n coefficients the least-squares fit may return
LSBlocks(n) ==
  IF n = 0 THEN {<<>>}
  ELSE IF n = 1 THEN {<<2>>, <<4>>}
  ELSE {<<2, 2>>, <<2, -2>>, <<0, 4>>}

\* b_arma_fit[0] of series bid
MuTok(bid) == 40 + bid

\* acc / (n_obs - r - q) of series bid
SigmaTok(bid) == 50 + bid

\* rational arithmetic; a denominator 0 is the result of a division by zero
\* and any operation on it gives <<0, 0>> (NaN)
RFinite(x) == x[2] # 0

RNorm(x) == IF x[2] < 0 THEN <<-x[1], -x[2]>> ELSE x

RAdd(x, y) ==
  IF RFinite(x) /\ RFinite(y) THEN <<x[1] * y[2] + y[1] * x[2], x[2] * y[2]>>
  ELSE <<0, 0>>

RMul(x, y) ==
  IF RFinite(x) /\ RFinite(y) THEN <<x[1] * y[1], x[2] * y[2]>>
  ELSE <<0, 0>>

RDiv(x, y) ==
  IF RFinite(x) /\ RFinite(y) THEN RNorm(<<x[1] * y[2], x[2] * y[1]>>)
  ELSE <<0, 0>>

\* !(x <= -1 || x >= 1): false for an infinity, true for NaN
RInsideUnit(x) ==
  IF RFinite(x) THEN -x[2] < x[1] /\ x[1] < x[2] ELSE x[1] = 0

\* test_invparams<isAr>(params, pq): the inverse transform up to the atanh
\* step, then "all values strictly between -1 and 1"
test_invparams(params, pq, isAr) ==
  LET coef == IF isAr THEN <<1, 1>> ELSE <<-1, 1>>
      Step(new, j) ==
        [i \in 0..(pq - 1) |->
           IF i < j
           THEN RDiv(RAdd(new[i], RMul(coef, RMul(new[j], new[j - i - 1]))),
                     RAdd(<<1, 1>>, RMul(<<-1, 1>>, RMul(new[j], new[j]))))
           ELSE new[i]]
      After[j \in 1..pq] ==
        IF j = pq THEN [i \in 0..(pq - 1) |-> <<params[i + 1], Unit>>]
        ELSE Step(After[j + 1], j)
  IN  \A i \in 0..(pq - 1) : RInsideUnit(After[1][i])

\* a faulty variant of TooFewObs: the fit is skipped only when the rows are
\* fewer than the parameters
TooFewObsStrict(n_obs, p, q, s, k) ==
  LET ps == p * s
      qs == q * s
      p_ar == Max2(ps, 2 * qs)
      r == Max2(p_ar + qs, ps)
  IN  p + q + k > n_obs - r

\* "if ((q && p_ar >= n_obs - p_ar) || p + q + k >= n_obs - r)"
TooFewObs(n_obs, p, q, s, k) ==
  LET ps == p * s
      qs == q * s
      p_ar == Max2(ps, 2 * qs)
      r == Max2(p_ar + qs, ps)
  IN  (q # 0 /\ p_ar >= n_obs - p_ar) \/ p + q + k >= n_obs - r

\* a faulty variant of LsShape: r leaves out the lags of the residuals
LsShapeShortR(n_obs, p, q, s, k) ==
  LET ps == p * s
      qs == q * s
      p_ar == Max2(ps, 2 * qs)
      r == Max2(p_ar, ps)
  IN  [ps |-> ps, qs |-> qs, p_ar |-> p_ar, r |-> r,
       rows |-> n_obs - r, cols |-> p + q + k,
       ar_offset |-> r - ps, res_offset |-> r - p_ar - qs,
       ls_height |-> n_obs - p_ar, sigma2_div |-> n_obs - r - q]

\* the sizes _arma_least_squares derives from its arguments: bm_ls_ar_res
\* has rows x cols cells per series, the lags of y start at ar_offset, the
\* lags of the residuals (ls_height of them) at res_offset, and the sum of
\* squares is divided by sigma2_div
LsShape(n_obs, p, q, s, k) ==
  LET ps == p * s
      qs == q * s
      p_ar == Max2(ps, 2 * qs)
      r == Max2(p_ar + qs, ps)
  IN  [ps |-> ps, qs |-> qs, p_ar |-> p_ar, r |-> r,
       rows |-> n_obs - r, cols |-> p + q + k,
       ar_offset |-> r - ps, res_offset |-> r - p_ar - qs,
       ls_height |-> n_obs - p_ar, sigma2_div |-> n_obs - r - q]

ZeroBlock(n) == [i \in 1..n |-> 0]

\* a faulty variant of arma_least_squares: an invalid MA block also zeroes
\* the AR block
arma_least_squares_both(prm, n_obs, bs, p, q, s, estimate_sigma2, k, ls) ==
  IF TooFewObs(n_obs, p, q, s, k)
  THEN [mu |-> IF k # 0 THEN [bid \in 1..bs |-> 0] ELSE prm.mu,
        ar |-> IF p # 0 THEN [bid \in 1..bs |-> ZeroBlock(p)] ELSE prm.ar,
        ma |-> IF q # 0 THEN [bid \in 1..bs |-> ZeroBlock(q)] ELSE prm.ma,
        sigma2 |-> IF estimate_sigma2 THEN [bid \in 1..bs |-> Unit]
                   ELSE prm.sigma2]
  ELSE [mu |-> IF k # 0 THEN ls.mu ELSE prm.mu,
        ar |-> IF p # 0
               THEN [bid \in 1..bs |->
                       IF test_invparams(ls.ar[bid], p, TRUE)
                          /\ (q = 0 \/ test_invparams(ls.ma[bid], q, FALSE))
                       THEN ls.ar[bid] ELSE ZeroBlock(p)]
               ELSE prm.ar,
        ma |-> IF q # 0
               THEN [bid \in 1..bs |->
                       IF test_invparams(ls.ma[bid], q, FALSE)
                       THEN ls.ma[bid] ELSE ZeroBlock(q)]
               ELSE prm.ma,
        sigma2 |-> IF estimate_sigma2 THEN ls.sigma2 ELSE prm.sigma2]

\* _arma_least_squares on the parameters prm = (mu, ar, ma, sigma2), where ls
\* is the solution of the least-squares fit: too few observations give the
\* neutral values; otherwise the solution is copied and every block that is
\* not valid for the inverse transform is set to zero
arma_least_squares(prm, n_obs, bs, p, q, s, estimate_sigma2, k, ls) ==
  IF TooFewObs(n_obs, p, q, s, k)
  THEN [mu |-> IF k # 0 THEN [bid \in 1..bs |-> 0] ELSE prm.mu,
        ar |-> IF p # 0 THEN [bid \in 1..bs |-> ZeroBlock(p)] ELSE prm.ar,
        ma |-> IF q # 0 THEN [bid \in 1..bs |-> ZeroBlock(q)] ELSE prm.ma,
        sigma2 |-> IF estimate_sigma2 THEN [bid \in 1..bs |-> Unit]
                   ELSE prm.sigma2]
  ELSE [mu |-> IF k # 0 THEN ls.mu ELSE prm.mu,
        ar |-> IF p # 0
               THEN [bid \in 1..bs |->
                       IF test_invparams(ls.ar[bid], p, TRUE)
                       THEN ls.ar[bid] ELSE ZeroBlock(p)]
               ELSE prm.ar,
        ma |-> IF q # 0
               THEN [bid \in 1..bs |->
                       IF test_invparams(ls.ma[bid], q, FALSE)
                       THEN ls.ma[bid] ELSE ZeroBlock(q)]
               ELSE prm.ma,
        sigma2 |-> IF estimate_sigma2 THEN ls.sigma2 ELSE prm.sigma2]

\* the solutions the least-squares fit may return for a batch
LSResults(bs, p, q) ==
  [mu : {[bid \in 1..bs |-> MuTok(bid)]},
   ar : [1..bs -> LSBlocks(p)],
   ma : [1..bs -> LSBlocks(q)],
   sigma2 : {[bid \in 1..bs |-> SigmaTok(bid)]}]

\* what _arma_least_squares does not compute when it skips the fit
NoLS == [mu |-> <<>>, ar |-> <<>>, ma |-> <<>>, sigma2 |-> <<>>]

EstIdle ==
  /\ es_pc = "idle"
  /\ es_order = [p |-> 0, q |-> 0, P |-> 0, Q |-> 0, s |-> 0, k |-> 0]
  /\ es_in = [n_obs |-> 0, batch_size |-> 0]
  /\ es_params = [mu |-> <<>>, ar |-> <<>>, ma |-> <<>>, sar |-> <<>>,
                  sma |-> <<>>, sigma2 |-> <<>>]
  /\ es_calls = <<>>

\* the arguments of _start_params; the parameter arrays are allocated by the
\* caller and not initialized
EstInit ==
  /\ es_pc = "arma"
  /\ es_order \in
       {o \in [p : EstPQVals, q : EstPQVals, P : EstSeasVals, Q : EstSeasVals,
               s : {0, EstPeriod}, k : {0, 1}] :
          (o.P + o.Q > 0) <=> (o.s = EstPeriod)}
  /\ es_in \in [n_obs : EstObsVals, batch_size : 1..MaxNb]
  /\ es_params =
       [mu |-> [bid \in 1..es_in.batch_size |-> Uninit],
        ar |-> [bid \in 1..es_in.batch_size |->
                  [i \in 1..es_order.p |-> Uninit]],
        ma |-> [bid \in 1..es_in.batch_size |->
                  [i \in 1..es_order.q |-> Uninit]],
        sar |-> [bid \in 1..es_in.batch_size |->
                   [i \in 1..es_order.P |-> Uninit]],
        sma |-> [bid \in 1..es_in.batch_size |->
                   [i \in 1..es_order.Q |-> Uninit]],
        sigma2 |-> [bid \in 1..es_in.batch_size |-> Uninit]]
  /\ es_calls = <<>>

\* entry of es_calls
CallRecord(part, before, ls, skipped) ==
  [part |-> part, before |-> before, ls |-> ls, skipped |-> skipped]

\* "if (order.p + order.q + order.k) _arma_least_squares(..., params.ar,
\*  params.ma, params.sigma2, bm_y, p, q, 1, true, k, params.mu)"
EstArma ==
  /\ es_pc = "arma"
  /\ es_order.p + es_order.q + es_order.k # 0
  /\ \E ls \in LSResults(es_in.batch_size, es_order.p, es_order.q) :
       LET skipped == TooFewObs(es_in.n_obs, es_order.p, es_order.q, 1,
                                es_order.k)
           prm == [mu |-> es_params.mu, ar |-> es_params.ar,
                   ma |-> es_params.ma, sigma2 |-> es_params.sigma2]
           out == arma_least_squares(prm, es_in.n_obs, es_in.batch_size,
                                     es_order.p, es_order.q, 1, TRUE,
                                     es_order.k, ls)
       IN  /\ es_params' = [es_params EXCEPT !.mu = out.mu, !.ar = out.ar,
                                             !.ma = out.ma,
                                             !.sigma2 = out.sigma2]
           /\ es_calls' = Append(es_calls,
                CallRecord("arma", es_params, IF skipped THEN NoLS ELSE ls,
                           skipped))
  /\ es_pc' = "seasonal"
  /\ UNCHANGED <<es_order, es_in>>
  /\ UNCHANGED notEst

\* order.p + order.q + order.k == 0: no non-seasonal estimate
EstNoArma ==
  /\ es_pc = "arma"
  /\ es_order.p + es_order.q + es_order.k = 0
  /\ es_pc' = "seasonal"
  /\ UNCHANGED <<es_order, es_in, es_params, es_calls>>
  /\ UNCHANGED notEst

\* "if (order.P + order.Q) _arma_least_squares(..., params.sar, params.sma,
\*  params.sigma2, bm_y, P, Q, s, p + q + k == 0)": k = 0, mu = nullptr
EstSeasonal ==
  /\ es_pc = "seasonal"
  /\ es_order.P + es_order.Q # 0
  /\ \E ls \in LSResults(es_in.batch_size, es_order.P, es_order.Q) :
       LET skipped == TooFewObs(es_in.n_obs, es_order.P, es_order.Q,
                                es_order.s, 0)
           prm == [mu |-> es_params.mu, ar |-> es_params.sar,
                   ma |-> es_params.sma, sigma2 |-> es_params.sigma2]
           out == arma_least_squares(prm, es_in.n_obs, es_in.batch_size,
                                     es_order.P, es_order.Q, es_order.s,
                                     es_order.p + es_order.q + es_order.k = 0,
                                     0, ls)
       IN  /\ es_params' = [es_params EXCEPT !.mu = out.mu, !.sar = out.ar,
                                             !.sma = out.ma,
                                             !.sigma2 = out.sigma2]
           /\ es_calls' = Append(es_calls,
                CallRecord("seasonal", es_params,
                           IF skipped THEN NoLS ELSE ls, skipped))
  /\ es_pc' = "done"
  /\ UNCHANGED <<es_order, es_in>>
  /\ UNCHANGED notEst

\* order.P + order.Q == 0: no seasonal estimate
EstNoSeasonal ==
  /\ es_pc = "seasonal"
  /\ es_order.P + es_order.Q = 0
  /\ es_pc' = "done"
  /\ UNCHANGED <<es_order, es_in, es_params, es_calls>>
  /\ UNCHANGED notEst

(***************************************************************************)
(* ll_gf: the batched finite-difference gradient of the log-likelihood     *)
(* (python/cuml/ts/batched_arima.pyx).  Parameter values are counted in    *)
(* units of the step h, so that x + h is x + 1.                            *)
(***************************************************************************)

\* the parameter values of the points at which the gradient is taken
GfXVals == {0, 1, 2}

\* the values of p, d and q of the gradient calls
GfOrderVals == {0, 1}

\* the orders (p, d, q) of the gradient calls
GfOrders == GfOrderVals \X GfOrderVals \X GfOrderVals

\* the observations of a batch: series b is known by the token b
GfSeries(nb) == [b \in 1..nb |-> b]

\* the log-likelihood batched_loglike computes for one series: it reads the
\* observations yb of the series and the series' own num_parameters entries
\* xb of the parameter vector, and no other entry
RECURSIVE loglike_b(_, _, _)
loglike_b(yb, xb, j) ==
  IF j > Len(xb) THEN 0
  ELSE (3 * yb + j) * xb[j] * xb[j]
       + (IF j < Len(xb) THEN xb[j] * xb[j + 1] ELSE 0)
       + loglike_b(yb, xb, j + 1)

\* ll_f(num_batches, nobs, order, y, x): one batched evaluation, the
\* log-likelihood of every series at its slice of x
ll_f(num_batches, num_parameters, y, x) ==
  [b \in 1..num_batches |->
     loglike_b(y[b],
               Slice(x, (b - 1) * num_parameters, b * num_parameters), 1)]

\* np.zeros(n)
zeros(n) == [j \in 1..n |-> 0]

\* np.tile(fd, reps) restricted to the first series only
tile_first(fd, reps) ==
  [n \in 1..(Len(fd) * reps) |-> IF n <= Len(fd) THEN fd[n] ELSE 0]

\* np.tile(fd, reps): fd repeated reps times
tile(fd, reps) ==
  [n \in 1..(Len(fd) * reps) |-> fd[((n - 1) % Len(fd)) + 1]]

\* x + sign * fdph, elementwise
Perturbed(x, fdph, sign) == [n \in 1..Len(x) |-> x[n] + sign * fdph[n]]

\* grad[i::num_parameters] = grad_i_b (i is 0-based)
StridedAssign(grad, i, num_parameters, grad_i_b) ==
  [n \in 1..Len(grad) |->
     IF (n - 1) % num_parameters = i
     THEN grad_i_b[((n - 1) \div num_parameters) + 1]
     ELSE grad[n]]

GradIdle ==
  /\ gf_pc = "idle"
  /\ gf_args = <<>>
  /\ gf_i = 0
  /\ gf_grad = <<>>
  /\ gf_evals = <<>>

\* the state at the entry of ll_gf(num_batches, nobs, num_parameters, order,
\* y, x): "fd = np.zeros(num_parameters); grad = np.zeros(len(x))"
GradInit ==
  /\ gf_pc = "check"
  /\ \E nb \in 1..MaxNb, order \in GfOrders :
       LET num_parameters == order[1] + order[2] + order[3]
       IN  \E x \in [1..(nb * num_parameters) -> GfXVals] :
             /\ gf_args = [num_batches |-> nb, order |-> order,
                           num_parameters |-> num_parameters,
                           y |-> GfSeries(nb), x |-> x]
             /\ gf_grad = zeros(Len(x))
  /\ gf_i = 0
  /\ gf_evals = <<>>

\* "assert (len(x) / num_parameters) == float(num_batches)" with
\* num_parameters == 0: the division raises
GradNoParameters ==
  /\ gf_pc = "check"
  /\ gf_args.num_parameters = 0
  /\ gf_pc' = "ZeroDivisionError"
  /\ UNCHANGED <<gf_args, gf_i, gf_grad, gf_evals>>
  /\ UNCHANGED notGrad

\* the assert holds: len(x) == num_batches * num_parameters
GradEnter ==
  /\ gf_pc = "check"
  /\ gf_args.num_parameters # 0
  /\ Len(gf_args.x) = gf_args.num_batches * gf_args.num_parameters
  /\ gf_pc' = "loop"
  /\ UNCHANGED <<gf_args, gf_i, gf_grad, gf_evals>>
  /\ UNCHANGED notGrad

\* one iteration of "for i in range(num_parameters)"
GradStep ==
  /\ gf_pc = "loop"
  /\ gf_i < gf_args.num_parameters
  /\ LET np_ == gf_args.num_parameters
         nb == gf_args.num_batches
         fd == [zeros(np_) EXCEPT ![gf_i + 1] = 1]
         fdph == tile(fd, nb)
         x_ph == Perturbed(gf_args.x, fdph, 1)
         x_mh == Perturbed(gf_args.x, fdph, -1)
         ll_b_ph == ll_f(nb, np_, gf_args.y, x_ph)
         ll_b_mh == ll_f(nb, np_, gf_args.y, x_mh)
         grad_i_b == [b \in 1..nb |-> (ll_b_ph[b] - ll_b_mh[b]) \div 2]
     IN  /\ gf_grad' = IF nb = 1
                       THEN [gf_grad EXCEPT ![gf_i + 1] = grad_i_b[1]]
                       ELSE StridedAssign(gf_grad, gf_i, np_, grad_i_b)
         /\ gf_evals' = gf_evals \o <<x_ph, x_mh>>
  /\ gf_i' = gf_i + 1
  /\ UNCHANGED <<gf_pc, gf_args>>
  /\ UNCHANGED notGrad

\* "return grad"
GradReturn ==
  /\ gf_pc = "loop"
  /\ gf_i = gf_args.num_parameters
  /\ gf_pc' = "done"
  /\ UNCHANGED <<gf_args, gf_i, gf_grad, gf_evals>>
  /\ UNCHANGED notGrad

(***************************************************************************)
(* ARIMAModel.bic and ARIMAModel.aic (python/cuml/ts/batched_arima.pyx).   *)
(* A criterion value c + logc * log(len(self.y)) is the record             *)
(* [c |-> c, logc |-> logc]: the logarithm is kept symbolic.               *)
(***************************************************************************)

\* the values of p and q, and of d, of the orders of a model
IcPQVals == {0, 1}

IcDVals == {0, 1, 2}

IcOrders == IcPQVals \X IcDVals \X IcPQVals

\* the parameter values of a model
IcXVals == {1, 2}

\* the values of y.shape[0]
IcObsVals == {3, 5}

\* _model_complexity(order): "complexity is number of parameters: mu + ar +
\* ma"; "return d + p + q"
_model_complexity(order) ==
  LET p == order[1]
      d == order[2]
      q == order[3]
  IN  d + p + q

\* pack reads ar[i][j] for j < p and ma[i][j] for j < q: an index past the
\* end of a series' array raises
PackOutOfRange(model) ==
  \E i \in 1..model.num_batches :
    \/ Len(model.ar_params[i]) < model.order[1][1]
    \/ Len(model.ma_params[i]) < model.order[1][3]

\* "(p, d, q) = self.order[0]; x = pack(...); llb = ll_f(self.num_batches,
\*  self.num_samples, self.order[0], self.y, x)"
IcLoglike(model) ==
  LET p == model.order[1][1]
      d == model.order[1][2]
      q == model.order[1][3]
      x == pack(p, d, q, model.num_batches, model.mu, model.ar_params,
                model.ma_params)
  IN  ll_f(model.num_batches, d + p + q, model.y, x)

\* ARIMAModel.bic: "[-2 * lli + np.log(len(self.y)) *
\*  (_model_complexity(self.order[i])) for (i, lli) in enumerate(llb)]"
bic(model) ==
  LET llb == IcLoglike(model)
  IN  [i \in 1..Len(llb) |->
         [c |-> -2 * llb[i], logc |-> _model_complexity(model.order[i])]]

\* ARIMAModel.aic with the complexity of the first series for every series
aic_first_order(model) ==
  LET llb == IcLoglike(model)
  IN  [i \in 1..Len(llb) |->
         [c |-> -2 * llb[i] + 2 * _model_complexity(model.order[1]),
          logc |-> 0]]

\* ARIMAModel.aic: "[-2 * lli + 2 * (_model_complexity(self.order[i]))
\*  for (i, lli) in enumerate(llb)]"
aic(model) ==
  LET llb == IcLoglike(model)
  IN  [i \in 1..Len(llb) |->
         [c |-> -2 * llb[i] + 2 * _model_complexity(model.order[i]),
          logc |-> 0]]

IcIdle ==
  /\ ic_pc = "idle"
  /\ ic_model = <<>>
  /\ ic_bic = <<>>
  /\ ic_aic = <<>>

\* an ARIMAModel as fit (one order for all series) or grid_search (the best
\* order of each series) builds it
IcInit ==
  /\ ic_pc = "model"
  /\ \E nb \in 1..MaxNb, n \in IcObsVals :
       \E order \in [1..nb -> IcOrders], mu \in [1..nb -> IcXVals] :
         \E ar \in [1..nb -> UNION {[1..l -> IcXVals] : l \in IcPQVals}],
            ma \in [1..nb -> UNION {[1..l -> IcXVals] : l \in IcPQVals}] :
           /\ \A i \in 1..nb : /\ Len(ar[i]) = order[i][1]
                               /\ Len(ma[i]) = order[i][3]
           /\ ic_model = [order |-> order, mu |-> mu, ar_params |-> ar,
                          ma_params |-> ma, y |-> GfSeries(nb),
                          num_samples |-> n, num_batches |-> nb]
  /\ ic_bic = <<>>
  /\ ic_aic = <<>>

\* the property bic is read
IcBic ==
  /\ ic_pc = "model"
  /\ ic_bic = <<>>
  /\ ~PackOutOfRange(ic_model)
  /\ ic_bic' = bic(ic_model)
  /\ UNCHANGED <<ic_pc, ic_model, ic_aic>>
  /\ UNCHANGED notIc

\* the property aic is read
IcAic ==
  /\ ic_pc = "model"
  /\ ic_aic = <<>>
  /\ ~PackOutOfRange(ic_model)
  /\ ic_aic' = aic(ic_model)
  /\ UNCHANGED <<ic_pc, ic_model, ic_bic>>
  /\ UNCHANGED notIc

\* either property is read and pack indexes past the end of an array
IcPackRaises ==
  /\ ic_pc = "model"
  /\ PackOutOfRange(ic_model)
  /\ ic_pc' = "IndexError"
  /\ UNCHANGED <<ic_model, ic_bic, ic_aic>>
  /\ UNCHANGED notIc

(***************************************************************************)
(* conditional_sum_of_squares and sum_of_squares_kernel (common_kernel.cuh)*)
(* for one series: the block of the kernel that handles it.  The value     *)
(* -0.5 * mult * log(num / den) is the record [mult, num, den]: the        *)
(* logarithm is kept symbolic.                                             *)
(***************************************************************************)
MaxLags == 2

\* the values of n_obs
CssObsVals == {1, 2, 3, 4}

\* the values of the coefficients of the reduced polynomials
CssCoefVals == {-1, 1}

\* the values of mu
CssMuVals == {1, 2}

\* the observation b_y[i] of the series
CssY(i) == i + 2

\* the sum over the threads t < n of coef[t] * buf[i - t - 1]: the block
\* reduction of the main loop (coef is 1-based here, buf 0-based)
RECURSIVE LagSum(_, _, _, _)
LagSum(coef, buf, i, n) ==
  IF n = 0 THEN 0
  ELSE coef[n] * buf[i - n] + LagSum(coef, buf, i, n - 1)

\* the cells 0 .. n_obs - 1 of a buffer; a read outside them is not
\* modelled by a value
CellsOf(n_obs) == 0..(n_obs - 1)

CssIdle ==
  /\ cs_pc = "idle"
  /\ cs_in = <<>>
  /\ cs_i = 0
  /\ cs_vs = <<>>
  /\ cs_ssq = 0
  /\ cs_loglike = <<>>
  /\ cs_oob = {}

\* the arguments of conditional_sum_of_squares for one series: n_obs,
\* n_phi = order.n_phi(), n_theta = order.n_theta(), order.k, the reduced
\* polynomials phi and theta, and mu
CssInit ==
  /\ cs_pc = "call"
  /\ \E n_obs \in CssObsVals, n_phi \in 0..MaxLags, n_theta \in 0..MaxLags,
        k \in {0, 1}, mu \in CssMuVals :
       \E phi \in [1..n_phi -> CssCoefVals],
          theta \in [1..n_theta -> CssCoefVals] :
         cs_in = [n_obs |-> n_obs, n_phi |-> n_phi, n_theta |-> n_theta,
                  k |-> k, phi |-> phi, theta |-> theta, mu |-> mu,
                  start |-> 0]
  /\ cs_i = 0
  /\ cs_vs = <<>>
  /\ cs_ssq = 0
  /\ cs_loglike = <<>>
  /\ cs_oob = {}

\* conditional_sum_of_squares: "int max_lags = std::max(n_phi, n_theta);
\* int start = max_lags + 1;" and the launch of the kernel, whose prologue
\* loads y and sets b_vs[i] = 0 for i < start; ssq = 0
CssLaunch ==
  /\ cs_pc = "call"
  /\ LET max_lags == Max2(cs_in.n_phi, cs_in.n_theta)
         start == max_lags + 1
     IN  /\ cs_in' = [cs_in EXCEPT !.start = start]
         /\ cs_vs' = [i \in CellsOf(cs_in.n_obs) |->
                        IF i < start THEN 0 ELSE Uninit]
         /\ cs_oob' = {<<"b_vs", i>> : i \in cs_in.n_obs..(start - 1)}
         /\ cs_i' = start
  /\ cs_ssq' = 0
  /\ cs_pc' = "loop"
  /\ UNCHANGED cs_loglike
  /\ UNCHANGED notCss

\* one iteration of "for (int i = start; i < n_obs; i++)"
CssStep ==
  /\ cs_pc = "loop"
  /\ cs_i < cs_in.n_obs
  /\ LET b_y == [i \in CellsOf(cs_in.n_obs) |-> CssY(i)]
         mu == IF cs_in.k # 0 THEN cs_in.mu ELSE 0
         res == b_y[cs_i] - mu
                - LagSum(cs_in.phi, b_y, cs_i, cs_in.n_phi)
                - LagSum(cs_in.theta, cs_vs, cs_i, cs_in.n_theta)
     IN  /\ cs_vs' = [cs_vs EXCEPT ![cs_i] = res]
         /\ cs_ssq' = cs_ssq + res * res
  /\ cs_i' = cs_i + 1
  /\ UNCHANGED <<cs_pc, cs_in, cs_loglike, cs_oob>>
  /\ UNCHANGED notCss

\* "d_loglike[blockIdx.x] = -0.5 * static_cast<DataT>(n_obs) *
\*  MLCommon::myLog(ssq / static_cast<DataT>(n_obs - start))"
CssWrite ==
  /\ cs_pc = "loop"
  /\ cs_i >= cs_in.n_obs
  /\ cs_loglike' = [mult |-> cs_in.n_obs, num |-> cs_ssq,
                    den |-> cs_in.n_obs - cs_in.start]
  /\ cs_pc' = "done"
  /\ UNCHANGED <<cs_in, cs_i, cs_vs, cs_ssq, cs_oob>>
  /\ UNCHANGED notCss

(***************************************************************************)
(* The scratch buffers of batched_loglike (both overloads) and of          *)
(* information_criterion (common_kernel.cuh): every call of the device     *)
(* allocator is logged.  A MLCommon::device_buffer releases its memory,    *)
(* with the size it holds, when its scope ends.                            *)
(***************************************************************************)

\* the function called: information_criterion, batched_loglike on a packed
\* parameter vector (d_params), or batched_loglike on ARIMAParams
BlEntries == {"information_criterion", "batched_loglike_packed",
              "batched_loglike"}

BlObsVals == {3, 4}

BlLostVals == {0, 1}

BlLagVals == {0, 1}

BlStepVals == {0, 2}

\* "sizeof(double) * (n_obs - order.lost_in_diff()) * batch_size", the size
\* d_vs is deallocated with, without the differencing
DvsDeallocSizeFull(a) == a.n_obs * a.batch_size

\* the size d_vs is allocated with in information_criterion
DvsAllocSize(a) == (a.n_obs - a.lost_in_diff) * a.batch_size

\* the size d_vs is deallocated with in information_criterion
DvsDeallocSize(a) == (a.n_obs - a.lost_in_diff) * a.batch_size

\* the memory ARIMAParams::allocate(order, batch_size, ..., tr) takes and
\* ARIMAParams::deallocate(order, batch_size, ..., tr) gives back
ParamsSize(a, tr) == <<"ARIMAParams", a.batch_size, tr>>

\* the constructor or resize of a device_buffer of n doubles
BufferAcquire(buf, n) == IF n > 0 THEN <<Allocate(buf, n)>> ELSE <<>>

\* the destructor of a device_buffer of n doubles
BufferRelease(buf, n) == IF n > 0 THEN <<Deallocate(buf, n)>> ELSE <<>>

MemIdle ==
  /\ bl_pc = "idle"
  /\ bl_args = <<>>
  /\ bl_log = <<>>

\* the arguments of the call; information_criterion calls batched_loglike
\* with trans = false and host_loglike = false
MemInit ==
  /\ bl_pc = "call"
  /\ bl_args \in {a \in [entry : BlEntries, batch_size : 1..MaxNb,
                         n_obs : BlObsVals, lost_in_diff : BlLostVals,
                         trans : BOOLEAN, host_loglike : BOOLEAN,
                         method : {"CSS", "MLE"}, fc_steps : BlStepVals,
                         need_prep : BOOLEAN, n_phi : BlLagVals,
                         n_theta : BlLagVals] :
                    a.entry = "information_criterion"
                      => ~a.trans /\ ~a.host_loglike}
  /\ bl_log = <<>>

\* information_criterion allocates d_vs; the overload of batched_loglike
\* that takes d_params allocates and unpacks params
BlEnter ==
  /\ bl_pc = "call"
  /\ bl_log' =
       IF bl_args.entry = "information_criterion"
       THEN <<Allocate("d_vs", DvsAllocSize(bl_args))>>
       ELSE IF bl_args.entry = "batched_loglike_packed"
       THEN <<Allocate("params", ParamsSize(bl_args, FALSE))>>
       ELSE <<>>
  /\ bl_pc' = "loglike"
  /\ UNCHANGED bl_args
  /\ UNCHANGED notMem

\* batched_loglike up to the choice of the engine: "if (method != MLE &&
\* fc_steps) method = MLE", the log-likelihood device array "if
\* (host_loglike)", the transformed parameters "if (trans)"
BlPrologue ==
  /\ bl_pc = "loglike"
  /\ bl_args' = [bl_args EXCEPT !.method =
                   IF @ # "MLE" /\ bl_args.fc_steps # 0 THEN "MLE" ELSE @]
  /\ bl_log' = bl_log
       \o (IF bl_args.host_loglike
           THEN BufferAcquire("loglike_buffer", bl_args.batch_size)
           ELSE <<>>)
       \o (IF bl_args.trans
           THEN <<Allocate("Tparams", ParamsSize(bl_args, TRUE))>>
           ELSE <<>>)
  /\ bl_pc' = "engine"
  /\ UNCHANGED notMem

\* the scope of y_prep ("if (!order.need_prep()) ... else ...") around the
\* engine: the buffers the branch acquires before, and releases after, the
\* calls inner of the engine
AroundEngine(a, inner) ==
  LET n == a.batch_size * (a.n_obs - a.lost_in_diff)
  IN  IF a.need_prep
      THEN BufferAcquire("y_prep", n) \o inner \o BufferRelease("y_prep", n)
      ELSE inner

\* method == CSS: conditional_sum_of_squares holds the buffers phi and theta
\* until it returns
BlEngineCSS ==
  /\ bl_pc = "engine"
  /\ bl_args.method = "CSS"
  /\ bl_log' = bl_log \o AroundEngine(bl_args,
       BufferAcquire("phi", bl_args.n_phi * bl_args.batch_size)
       \o BufferAcquire("theta", bl_args.n_theta * bl_args.batch_size)
       \o BufferRelease("theta", bl_args.n_theta * bl_args.batch_size)
       \o BufferRelease("phi", bl_args.n_phi * bl_args.batch_size))
  /\ bl_pc' = "epilogue"
  /\ UNCHANGED bl_args
  /\ UNCHANGED notMem

\* method == MLE: batched_kalman_filter
BlEngineMLE ==
  /\ bl_pc = "engine"
  /\ bl_args.method = "MLE"
  /\ bl_log' = bl_log \o AroundEngine(bl_args, <<>>)
  /\ bl_pc' = "epilogue"
  /\ UNCHANGED bl_args
  /\ UNCHANGED notMem

\* "if (trans) Tparams.deallocate(...)", then loglike_buffer goes out of
\* scope
BlEpilogue ==
  /\ bl_pc = "epilogue"
  /\ bl_log' = bl_log
       \o (IF bl_args.trans
           THEN <<Deallocate("Tparams", ParamsSize(bl_args, TRUE))>>
           ELSE <<>>)
       \o (IF bl_args.host_loglike
           THEN BufferRelease("loglike_buffer", bl_args.batch_size)
           ELSE <<>>)
  /\ bl_pc' = "leave"
  /\ UNCHANGED bl_args
  /\ UNCHANGED notMem

\* back in the caller: params.deallocate, or the criterion is computed and
\* d_vs is deallocated
BlLeave ==
  /\ bl_pc = "leave"
  /\ bl_log' = bl_log \o
       (IF bl_args.entry = "information_criterion"
        THEN <<Deallocate("d_vs", DvsDeallocSize(bl_args))>>
        ELSE IF bl_args.entry = "batched_loglike_packed"
        THEN <<Deallocate("params", ParamsSize(bl_args, FALSE))>>
        ELSE <<>>)
  /\ bl_pc' = "done"
  /\ UNCHANGED bl_args
  /\ UNCHANGED notMem

(***************************************************************************)
(* ls_backtrack and ls_success (the line search of the quasi-Newton        *)
(* solver).  Step lengths are counted in eighths; the objective and its    *)
(* gradient at a tested point are inputs: what matters of them is the      *)
(* outcome of the comparisons ls_success makes.                            *)
(***************************************************************************)
MaxLinesearch == 3

\* param.linesearch
LsTypes == {"LBFGS_LS_BT_ARMIJO", "LBFGS_LS_BT_WOLFE",
            "LBFGS_LS_BT_STRONG_WOLFE"}

\* the initial step: negative, zero, 1 and 4
LsStepVals == {-8, 0, 8, 32}

\* param.min_step and param.max_step
LsMinStepVals == {1, 8}

LsMaxStepVals == {16, 64}

\* dot(grad, drt) at the current point
LsDgVals == {-1, 0, 1}

\* where dg = dot(grad, drt) of the tested point lies: below
\* param.wolfe * dg_init ("low"), above -param.wolfe * dg_init ("high"), or
\* between the two
LsDgOutcomes == {"low", "mid", "high"}

\* the factors param.ls_dec = 1/2 and param.ls_inc = 2
LsWidths == {"ls_dec", "ls_inc"}

\* ls_success without the first branch: width is not assigned when the
\* Armijo condition fails
ls_success_no_dec(linesearch, armijo_fails, dg, width) ==
  IF armijo_fails THEN [ok |-> FALSE, width |-> width]
  ELSE IF linesearch = "LBFGS_LS_BT_ARMIJO" THEN [ok |-> TRUE, width |-> width]
  ELSE IF dg = "low" THEN [ok |-> FALSE, width |-> "ls_inc"]
  ELSE IF linesearch = "LBFGS_LS_BT_WOLFE" THEN [ok |-> TRUE, width |-> width]
  ELSE IF dg = "high" THEN [ok |-> FALSE, width |-> "ls_dec"]
  ELSE [ok |-> TRUE, width |-> width]

\* ls_success(param, fx_init, dg_init, fx, dg_test, step, grad, drt, &width):
\* the value returned and *width afterwards; armijo_fails is
\* "fx > fx_init + step * dg_test"
ls_success(linesearch, armijo_fails, dg, width) ==
  IF armijo_fails THEN [ok |-> FALSE, width |-> "ls_dec"]
  ELSE IF linesearch = "LBFGS_LS_BT_ARMIJO" THEN [ok |-> TRUE, width |-> width]
  ELSE IF dg = "low" THEN [ok |-> FALSE, width |-> "ls_inc"]
  ELSE IF linesearch = "LBFGS_LS_BT_WOLFE" THEN [ok |-> TRUE, width |-> width]
  ELSE IF dg = "high" THEN [ok |-> FALSE, width |-> "ls_dec"]
  ELSE [ok |-> TRUE, width |-> width]

\* "step *= width"; an unassigned width is any value
Scaled(step, width) ==
  IF width = "ls_dec" THEN {step \div 2}
  ELSE IF width = "ls_inc" THEN {step * 2}
  ELSE {step \div 2, step * 2}

NoLsState == [step |-> 0, iter |-> 0, evals |-> 0, width |-> "", moved |-> FALSE,
              tested |-> 0, ret |-> ""]

LsIdle ==
  /\ ls_pc = "idle"
  /\ ls_param = <<>>
  /\ ls_st = NoLsState

\* the arguments: param, step, and dot(grad, drt) of the current point;
\* "T width;" is not initialised; moved tells whether x, fx or grad has been
\* written, tested is the step of the last evaluation
LsInit ==
  /\ ls_pc = "entry"
  /\ ls_param \in [max_linesearch : 0..MaxLinesearch, linesearch : LsTypes,
                   min_step : LsMinStepVals, max_step : LsMaxStepVals,
                   step : LsStepVals, dg_init : LsDgVals]
  /\ ls_st = [NoLsState EXCEPT !.step = ls_param.step]

\* "if (step <= T(0)) return LS_INVALID_STEP;"
LsInvalidStep ==
  /\ ls_pc = "entry"
  /\ ls_st.step <= 0
  /\ ls_st' = [ls_st EXCEPT !.ret = "LS_INVALID_STEP"]
  /\ ls_pc' = "done"
  /\ UNCHANGED ls_param
  /\ UNCHANGED notLs

\* "if (dg_init > 0) return LS_INVALID_DIR;"
LsInvalidDir ==
  /\ ls_pc = "entry"
  /\ ls_st.step > 0
  /\ ls_param.dg_init > 0
  /\ ls_st' = [ls_st EXCEPT !.ret = "LS_INVALID_DIR"]
  /\ ls_pc' = "done"
  /\ UNCHANGED ls_param
  /\ UNCHANGED notLs

\* the loop is entered with iter = 0
LsEnterLoop ==
  /\ ls_pc = "entry"
  /\ ls_st.step > 0
  /\ ls_param.dg_init <= 0
  /\ ls_pc' = "loop"
  /\ UNCHANGED <<ls_param, ls_st>>
  /\ UNCHANGED notLs

\* the state after "x.axpy(step, drt, xp); fx = f(x, grad);" and the call of
\* ls_success with the outcome (armijo_fails, dg)
Evaluated(armijo_fails, dg) ==
  [ls_st EXCEPT !.evals = @ + 1, !.moved = TRUE, !.tested = ls_st.step,
                !.width = ls_success(ls_param.linesearch, armijo_fails, dg,
                                     ls_st.width).width]

\* one iteration: the tested step succeeds
LsSuccess ==
  /\ ls_pc = "loop"
  /\ ls_st.iter < ls_param.max_linesearch
  /\ \E armijo_fails \in BOOLEAN, dg \in LsDgOutcomes :
       /\ ls_success(ls_param.linesearch, armijo_fails, dg, ls_st.width).ok
       /\ ls_st' = [Evaluated(armijo_fails, dg) EXCEPT !.ret = "LS_SUCCESS"]
  /\ ls_pc' = "done"
  /\ UNCHANGED ls_param
  /\ UNCHANGED notLs

\* one iteration: the tested step fails and "step < param.min_step"
LsStepMin ==
  /\ ls_pc = "loop"
  /\ ls_st.iter < ls_param.max_linesearch
  /\ ls_st.step < ls_param.min_step
  /\ \E armijo_fails \in BOOLEAN, dg \in LsDgOutcomes :
       /\ ~ls_success(ls_param.linesearch, armijo_fails, dg, ls_st.width).ok
       /\ ls_st' = [Evaluated(armijo_fails, dg)
                      EXCEPT !.ret = "LS_INVALID_STEP_MIN"]
  /\ ls_pc' = "done"
  /\ UNCHANGED ls_param
  /\ UNCHANGED notLs

\* one iteration: the tested step fails and "step > param.max_step"
LsStepMax ==
  /\ ls_pc = "loop"
  /\ ls_st.iter < ls_param.max_linesearch
  /\ ls_st.step >= ls_param.min_step
  /\ ls_st.step > ls_param.max_step
  /\ \E armijo_fails \in BOOLEAN, dg \in LsDgOutcomes :
       /\ ~ls_success(ls_param.linesearch, armijo_fails, dg, ls_st.width).ok
       /\ ls_st' = [Evaluated(armijo_fails, dg)
                      EXCEPT !.ret = "LS_INVALID_STEP_MAX"]
  /\ ls_pc' = "done"
  /\ UNCHANGED ls_param
  /\ UNCHANGED notLs

\* one iteration: the tested step fails, "step *= width" and iter++
LsNextStep ==
  /\ ls_pc = "loop"
  /\ ls_st.iter < ls_param.max_linesearch
  /\ ls_st.step >= ls_param.min_step
  /\ ls_st.step <= ls_param.max_step
  /\ \E armijo_fails \in BOOLEAN, dg \in LsDgOutcomes :
       /\ ~ls_success(ls_param.linesearch, armijo_fails, dg, ls_st.width).ok
       /\ \E step \in Scaled(ls_st.step, Evaluated(armijo_fails, dg).width) :
            ls_st' = [Evaluated(armijo_fails, dg)
                        EXCEPT !.step = step, !.iter = @ + 1]
  /\ UNCHANGED <<ls_pc, ls_param>>
  /\ UNCHANGED notLs

\* "iter < param.max_linesearch" fails: "return LS_MAX_ITERS_REACHED;"
LsMaxIters ==
  /\ ls_pc = "loop"
  /\ ls_st.iter >= ls_param.max_linesearch
  /\ ls_st' = [ls_st EXCEPT !.ret = "LS_MAX_ITERS_REACHED"]
  /\ ls_pc' = "done"
  /\ UNCHANGED ls_param
  /\ UNCHANGED notLs

\* the components of the estimation layer are not running
MoreIdle ==
  EstIdle /\ GradIdle /\ IcIdle /\ CssIdle /\ MemIdle /\ LsIdle

(***************************************************************************)
(* Specifications                                                          *)
(***************************************************************************)
InitPack == PackInit /\ PredIdle /\ FitIdle /\ GridIdle /\ AutoIdle /\ MoreIdle

NextPack == Unpack \/ Pack

SpecPack == InitPack /\ [][NextPack]_vars

InitPredict == PredInit /\ PackIdle /\ FitIdle /\ GridIdle /\ AutoIdle /\ MoreIdle

NextPredict ==
  \/ PredictPrepare
  \/ \E bid \in DOMAIN pr_i : InSampleStep(bid)
  \/ InSampleJoin
  \/ \E bid \in DOMAIN pr_i : ForecastStep(bid)
  \/ ForecastJoin
  \/ PredictReturn

SpecPredict == InitPredict /\ [][NextPredict]_vars

InitFit == FitInit /\ PackIdle /\ PredIdle /\ GridIdle /\ AutoIdle /\ MoreIdle

NextFit == FitPrepare \/ FitFinish

SpecFit == InitFit /\ [][NextFit]_vars

InitGrid == GridInit /\ PackIdle /\ PredIdle /\ FitIdle /\ AutoIdle /\ MoreIdle

NextGrid ==
  \/ GridSkip
  \/ GridFitRaises
  \/ GridBadMethod
  \/ GridCandidate
  \/ GridReturn

SpecGrid == InitGrid /\ [][NextGrid]_vars

InitAuto == AutoInit /\ PackIdle /\ PredIdle /\ FitIdle /\ GridIdle /\ MoreIdle

NextAuto ==
  \/ AutoParse
  \/ AutoChooseD
  \/ Auto_d_User
  \/ Auto_d_BadTest
  \/ Auto_d_Test
  \/ Auto_d_Else
  \/ AutoClamp
  \/ AutoSkip
  \/ AutoFitCandidate
  \/ AutoDivide
  \/ AutoFinalFit
  \/ AutoBuildMap
  \/ AutoPredict

SpecAuto == InitAuto /\ [][NextAuto]_vars


\* either selector is run: grid_search or AutoARIMA
InitSelect == InitGrid \/ InitAuto

NextSelect ==
  \/ GridSkip
  \/ GridFitRaises
  \/ GridBadMethod
  \/ GridCandidate
  \/ GridReturn
  \/ AutoParse
  \/ AutoChooseD
  \/ Auto_d_User
  \/ Auto_d_BadTest
  \/ Auto_d_Test
  \/ Auto_d_Else
  \/ AutoClamp
  \/ AutoSkip
  \/ AutoFitCandidate
  \/ AutoDivide
  \/ AutoFinalFit
  \/ AutoBuildMap
  \/ AutoPredict

SpecSelect == InitSelect /\ [][NextSelect]_vars

InitEst ==
  /\ EstInit
  /\ PackIdle /\ PredIdle /\ FitIdle /\ GridIdle /\ AutoIdle
  /\ GradIdle /\ IcIdle /\ CssIdle /\ MemIdle /\ LsIdle

NextEst ==
  \/ EstArma
  \/ EstNoArma
  \/ EstSeasonal
  \/ EstNoSeasonal

SpecEst == InitEst /\ [][NextEst]_vars

InitGrad ==
  /\ GradInit
  /\ PackIdle /\ PredIdle /\ FitIdle /\ GridIdle /\ AutoIdle
  /\ EstIdle /\ IcIdle /\ CssIdle /\ MemIdle /\ LsIdle

NextGrad ==
  \/ GradNoParameters
  \/ GradEnter
  \/ GradStep
  \/ GradReturn

SpecGrad == InitGrad /\ [][NextGrad]_vars

InitIc ==
  /\ IcInit
  /\ PackIdle /\ PredIdle /\ FitIdle /\ GridIdle /\ AutoIdle
  /\ EstIdle /\ GradIdle /\ CssIdle /\ MemIdle /\ LsIdle

NextIc ==
  \/ IcBic
  \/ IcAic
  \/ IcPackRaises

SpecIc == InitIc /\ [][NextIc]_vars

InitCss ==
  /\ CssInit
  /\ PackIdle /\ PredIdle /\ FitIdle /\ GridIdle /\ AutoIdle
  /\ EstIdle /\ GradIdle /\ IcIdle /\ MemIdle /\ LsIdle

NextCss ==
  \/ CssLaunch
  \/ CssStep
  \/ CssWrite

SpecCss == InitCss /\ [][NextCss]_vars

InitMem ==
  \/ InitPredict
  \/ /\ MemInit
     /\ PackIdle /\ PredIdle /\ FitIdle /\ GridIdle /\ AutoIdle
     /\ EstIdle /\ GradIdle /\ IcIdle /\ CssIdle /\ LsIdle

NextMem ==
  \/ PredictPrepare
  \/ \E bid \in DOMAIN pr_i : InSampleStep(bid)
  \/ InSampleJoin
  \/ \E bid \in DOMAIN pr_i : ForecastStep(bid)
  \/ ForecastJoin
  \/ PredictReturn
  \/ BlEnter
  \/ BlPrologue
  \/ BlEngineCSS
  \/ BlEngineMLE
  \/ BlEpilogue
  \/ BlLeave

SpecMem == InitMem /\ [][NextMem]_vars

InitLs ==
  /\ LsInit
  /\ PackIdle /\ PredIdle /\ FitIdle /\ GridIdle /\ AutoIdle
  /\ EstIdle /\ GradIdle /\ IcIdle /\ CssIdle /\ MemIdle

NextLs ==
  \/ LsInvalidStep
  \/ LsInvalidDir
  \/ LsEnterLoop
  \/ LsSuccess
  \/ LsStepMin
  \/ LsStepMax
  \/ LsNextStep
  \/ LsMaxIters

SpecLs == InitLs /\ [][NextLs]_vars
(***************************************************************************)
(* Claims                                                                  *)
(***************************************************************************)

\* C1: for every nb >= 1, every (p, d, q) with d in {0,1,2} and every flat
\* vector x of length nb*(d+p+q), pack(unpack(x)) equals x element for element.
PackUnpackRoundTrip == pk_pc = "packed" => pk_out = pk_x

\* C5: for predict(start, end) with 0 <= start < lost_in_diff, in every
\* series exactly the entries for start <= t < min(end, lost_in_diff) hold the
\* undefined marker (NaN) when predict returns.
PredictNaNRegion ==
  (pr_phase = "done" /\ pr_args.start < pr_args.diff_obs) =>
    \A bid \in 0..(pr_args.batch_size - 1) :
      \A i \in 0..(predict_ld(pr_args) - 1) :
        (pr_out[bid * predict_ld(pr_args) + i] = NaNV)
          <=> (pr_args.start + i < Min2(pr_args.end, pr_args.diff_obs))

\* C6: when predict returns, for every series b and every t with
\* max(start, lost_in_diff) <= t < min(n_obs, end), output entry (b, t-start)
\* equals y[b][t] - v[b][t-lost_in_diff], in every execution order.
PredictInSampleValue ==
  pr_phase = "done" =>
    \A bid \in 0..(pr_args.batch_size - 1) :
      \A t \in p_start(pr_args)..(p_end(pr_args) - 1) :
        pr_out[bid * predict_ld(pr_args) + t - pr_args.start]
          = YAt(bid, t) - VAt(bid, t - pr_args.diff_obs)


\* the number of positions of the index arrays that hold index i
Occurrences(arrays, i) ==
  Cardinality({mn \in (1..Len(arrays)) \X (1..MaxBatch) :
                 mn[2] <= Len(arrays[mn[1]]) /\ arrays[mn[1]][mn[2]] = i})

\* the index arrays form a partition of {0..batch_size-1}
IsPartition(arrays) ==
  /\ \A m \in 1..Len(arrays) : \A n \in 1..Len(arrays[m]) :
       arrays[m][n] \in 0..(aa_self.batch_size - 1)
  /\ \A i \in 0..(aa_self.batch_size - 1) : Occurrences(arrays, i) = 1

\* the index arrays of the buckets of a dictionary
IdsOf(dict) == [n \in 1..Len(dict) |-> dict[n].ids]

\* C2: every split stage of AutoARIMA.fit (by D, by (d, D), by selected
\* order) preserves the set of original indices: the buckets by D, the
\* buckets by (d, D) and, after fit, the index arrays of id_tracker each form
\* a partition of {0..batch_size-1}, for every outcome of the tests and every
\* IC matrix.
FitPartitionsIndices ==
  /\ (aa_pc = "choose_d" /\ aa_loop = [i |-> 1, j |-> 0])
       => IsPartition(IdsOf(aa_data_D))
  /\ aa_pc \in {"clamp", "grid", "final"} => IsPartition(IdsOf(aa_data_dD))
  /\ aa_pc \in {"fitted", "predicted"} => IsPartition(aa_id_tracker)

\* a fit that split a batch of two series into two final models
FitSplitTwoModels ==
  /\ aa_pc = "fitted"
  /\ aa_self.batch_size = 2
  /\ Len(aa_id_tracker) = 2

\* C3: AutoARIMA.predict returns the predictions in the original batch
\* order: output series i is the prediction of model id_to_model[i] at
\* position id_to_pos[i], and that position of that model's sub-batch holds
\* original series i.
PredictOriginalOrder ==
  aa_pc = "predicted" =>
    \A i \in 0..(aa_self.batch_size - 1) :
      LET m == aa_map.id_to_model[i] + 1
          n == aa_map.id_to_pos[i] + 1
      IN  /\ m \in 1..Len(aa_models)
          /\ n \in 1..Len(aa_models[m].data)
          /\ aa_id_tracker[m][n] = i
          /\ aa_models[m].data[n] = DataTok(i)
          /\ aa_out[i] = PredictionOf(m - 1, DataTok(i))

\* a prediction merged from two models whose order is not the batch order
PredictMergedOutOfOrder ==
  /\ aa_pc = "predicted"
  /\ aa_id_tracker = << <<1>>, <<0>> >>

\* the slots of series i in the flat vector of fit
SlotsOf(i) ==
  LET N == ft_order[1] + ft_order[2] + ft_order[3]
  IN  ((i - 1) * N + 1)..(i * N)

\* C4: a failure on one series never aborts the batch: fit is aborted by the
\* NaN/Inf check of x0 only if no series is left with a finite start point.
FitBadSeriesNotFatal ==
  ft_pc = "FloatingPointError" =>
    \A i \in 1..ft_nb : \E n \in SlotsOf(i) : ft_x[n] = NaNV

\* C7: when the optimizer returns a non-zero flag for any series, fit raises
\* no error and returns a model whose parameters, for every series, are the
\* forward-transformed, unpacked last iterate, with niter recorded.
FitNonConvergenceNotFatal ==
  (ft_flags # <<>> /\ \E i \in 1..ft_nb : ft_flags[i] # 0) =>
    /\ ft_pc = "done"
    /\ ft_model.niter = ft_niter
    /\ \A i \in 1..ft_nb :
         LET p == ft_order[1]
             d == ft_order[2]
             q == ft_order[3]
             base == (i - 1) * (p + d + q)
         IN  /\ ft_model.order[i] = ft_order
             /\ ft_model.mu[i] = (IF d > 0 THEN ft_x[base + 1] ELSE 0)
             /\ \A j \in 1..p :
                  ft_model.ar_params[i][j] = JonesCode(ft_x[base + d + j])
             /\ Len(ft_model.ma_params[i]) = q
             /\ \A j \in 1..q :
                  ft_model.ma_params[i][j] = JonesCode(ft_x[base + d + p + j])

\* fit returned for a batch of two series, one converged and one not, of an
\* order with AR and MA terms
FitReturnedDespiteFlag ==
  /\ ft_pc = "done"
  /\ ft_nb = 2
  /\ ft_flags[1] = 0 /\ ft_flags[2] # 0
  /\ ft_order[1] > 0 /\ ft_order[3] > 0

\* the position of the original index id in the current bucket
PosInBucket(id) == CHOOSE k \in 1..Len(CurBucket.ids) : CurBucket.ids[k] = id

\* the candidates of the current bucket whose order is that of model
CandidatesOf(model) ==
  {c \in 1..Len(aa_all_orders) :
     /\ aa_all_orders[c][1] = model.order[1]
     /\ aa_all_orders[c][2] = model.order[3]
     /\ aa_all_orders[c][3] = model.seasonal_order[1]
     /\ aa_all_orders[c][4] = model.seasonal_order[3]}

\* grid_search: per series, the order kept is one of lowest IC among the
\* candidates fitted so far, and no order is kept while all have failed
GridSelectsMinimum ==
  gs_pc \in {"loop", "done"} =>
    \A i \in 1..gs_args.nb :
      IF gs_min[i] = NoIC
      THEN gs_best_model.order[i] = <<>>
      ELSE /\ gs_best_model.order[i] \in gs_argmin[i]
           /\ gs_best_ic[i] = gs_min[i]

\* AutoARIMA.fit: final models are constructed only once every candidate of
\* the bucket has been fitted, and every series goes to a candidate of
\* lowest IC, never to a failed one when it has a finite one
AutoSelectsMinimum ==
  (aa_pc = "grid" /\ aa_models' # aa_models) =>
    /\ aa_loop.j > LoopLen(aa_bounds)
    /\ Len(aa_all_ic) = Len(aa_all_orders)
    /\ \A m \in (Len(aa_models) + 1)..Len(aa_models') :
         \A n \in 1..Len(aa_id_tracker'[m]) :
           LET pos == PosInBucket(aa_id_tracker'[m][n])
               sel == CandidatesOf(aa_models'[m])
           IN  /\ sel # {}
               /\ \A c \in sel : \A c2 \in 1..Len(aa_all_ic) :
                    /\ ICScore(aa_all_ic[c][pos]) <= ICScore(aa_all_ic[c2][pos])
                    /\ aa_all_ic[c2][pos] # NaNV => aa_all_ic[c][pos] # NaNV

\* C8: for every series, the order selected by the grid search is a
\* candidate of lowest IC among all candidates fitted for its bucket, and a
\* failed candidate (+infinity or NaN) is never selected for a series that
\* has a candidate with finite IC.
SelectionMinimizesIC == []GridSelectsMinimum /\ [][AutoSelectsMinimum]_vars

\* grid_search returned different orders for two series
GridSelectedTwoOrders ==
  /\ gs_pc = "done"
  /\ gs_args.nb = 2
  /\ gs_best_model.order[1] # <<>>
  /\ gs_best_model.order[2] # <<>>
  /\ gs_best_model.order[1] # gs_best_model.order[2]

\* the entries of the log of the given stage, in order
StageLog(stage) == SelectSeq(aa_log, LAMBDA e : e.stage = stage)

\* C9: each final model (one per bucket and selected order with at least one
\* series) is fitted exactly once, with the method passed as final_method, on
\* exactly the series recorded for it, and only after all grid-search fits.
FinalFitOnce ==
  /\ \A a \in 1..Len(aa_log) : \A b \in (a + 1)..Len(aa_log) :
       aa_log[a].stage = "final" => aa_log[b].stage = "final"
  /\ aa_pc = "final" =>
       /\ aa_all_orders = <<>>
       /\ \A m \in 1..Len(aa_models) :
            Len(aa_models[m].fitted) = (IF m < aa_loop.i THEN 1 ELSE 0)
  /\ aa_pc \in {"fitted", "predicted"} =>
       /\ Len(StageLog("final")) = Len(aa_models)
       /\ \A m \in 1..Len(aa_models) :
            /\ aa_models[m].fitted = <<aa_args.final_method>>
            /\ StageLog("final")[m].method = aa_args.final_method
            /\ StageLog("final")[m].data = aa_models[m].data
            /\ StageLog("final")[m].order = aa_models[m].order
            /\ StageLog("final")[m].seasonal_order = aa_models[m].seasonal_order
            /\ aa_models[m].data # <<>>
            /\ aa_models[m].data
                 = [n \in 1..Len(aa_id_tracker[m]) |-> DataTok(aa_id_tracker[m][n])]
            /\ \A m2 \in 1..Len(aa_models) :
                 (/\ aa_models[m2].order = aa_models[m].order
                  /\ aa_models[m2].seasonal_order = aa_models[m].seasonal_order)
                   => m2 = m

\* C9 as stated: every final fit uses the ML method.
FinalFitsUseML ==
  \A a \in 1..Len(aa_log) :
    aa_log[a].stage = "final" => aa_log[a].method = "ml"

\* a completed fit with two final models, after at least two candidate fits
FinalFitOfTwoModels ==
  /\ aa_pc = "fitted"
  /\ Len(aa_models) = 2
  /\ Len(StageLog("search")) >= 2

\* C10: every ARIMA model constructed by AutoARIMA.fit (candidate or final)
\* has the intercept flag k = 1 if and only if its d + D <= 1.
InterceptIffLowDifferencing ==
  /\ \A a \in 1..Len(aa_log) :
       /\ aa_log[a].fit_intercept \in {0, 1}
       /\ aa_log[a].fit_intercept = 1
            <=> aa_log[a].order[2] + aa_log[a].seasonal_order[2] <= 1
  /\ \A m \in 1..Len(aa_models) :
       /\ aa_models[m].fit_intercept \in {0, 1}
       /\ aa_models[m].fit_intercept = 1
            <=> aa_models[m].order[2] + aa_models[m].seasonal_order[2] <= 1

\* a completed fit holding a model without and a model with intercept
FitWithAndWithoutIntercept ==
  /\ aa_pc = "fitted"
  /\ \E m \in 1..Len(aa_models) :
       aa_models[m].fit_intercept = 0
         /\ aa_models[m].order[2] + aa_models[m].seasonal_order[2] = 2
  /\ \E m \in 1..Len(aa_models) : aa_models[m].fit_intercept = 1

\* the orders grid_search has fitted or tried to fit are those of the
\* candidates kept so far and the one whose fit or criterion raised
GridFittedOrdersNonZero ==
  /\ gs_pc \in {"FloatingPointError", "NotImplementedError"} =>
       GridOrder(gs_args, gs_k)[1] + GridOrder(gs_args, gs_k)[3] >= 1
  /\ gs_pc \in {"loop", "done"} =>
       \A i \in 1..gs_args.nb :
         /\ \A ord \in gs_argmin[i] : ord[1] + ord[3] >= 1
         /\ gs_best_model.order[i] # <<>> =>
              gs_best_model.order[i][1] + gs_best_model.order[i][3] >= 1

\* C11: the grid search never fits a candidate without any parameter:
\* AutoARIMA.fit fits no candidate with p + q + P + Q + k = 0 (the order
\* p = q = P = Q = 0 is fitted when the bucket has k = 1), and grid_search
\* fits no candidate with p = q = 0, whatever d.
NoParameterlessCandidate ==
  /\ \A a \in 1..Len(aa_log) :
       aa_log[a].stage = "search" =>
         aa_log[a].order[1] + aa_log[a].order[3]
           + aa_log[a].seasonal_order[1] + aa_log[a].seasonal_order[3]
           + aa_log[a].fit_intercept >= 1
  /\ GridFittedOrdersNonZero

\* C11 as stated: no candidate with p = q = P = Q = 0 is fitted, whatever k.
NoAllZeroOrderFitted ==
  /\ \A a \in 1..Len(aa_log) :
       aa_log[a].stage = "search" =>
         aa_log[a].order[1] + aa_log[a].order[3]
           + aa_log[a].seasonal_order[1] + aa_log[a].seasonal_order[3] >= 1
  /\ GridFittedOrdersNonZero

\* a grid that starts with the order p = q = P = Q = 0 in a bucket with
\* k = 0: the order has been skipped, nothing was fitted for it
SkippedAllZeroOrder ==
  /\ aa_pc = "grid"
  /\ CurK = 0
  /\ aa_loop.j = 2
  /\ LoopOrder(aa_bounds, 1) = <<0, 0, 0, 0>>
  /\ aa_all_orders = <<>>

\* the most recent call of _arma_least_squares
LastCall == es_calls[Len(es_calls)]

\* (p, q, s, k) of a call, and whether it estimates sigma2
CallShape(c) ==
  IF c.part = "arma"
  THEN [p |-> es_order.p, q |-> es_order.q, s |-> 1, k |-> es_order.k,
        sigma2 |-> TRUE]
  ELSE [p |-> es_order.P, q |-> es_order.Q, s |-> es_order.s, k |-> 0,
        sigma2 |-> es_order.p + es_order.q + es_order.k = 0]

\* the order p_ar of the preliminary AR fit and the number r of rows lost
\* to the lags
PrelimOrder(sh) == Max2(sh.p * sh.s, 2 * sh.q * sh.s)

LagsTrimmed(sh) == Max2(PrelimOrder(sh) + sh.q * sh.s, sh.p * sh.s)

\* the AR and MA blocks a call writes
BlocksOfCall(c) ==
  IF c.part = "arma" THEN [ar |-> es_params.ar, ma |-> es_params.ma]
  ELSE [ar |-> es_params.sar, ma |-> es_params.sma]

\* a call of _arma_least_squares has just returned
EstCallReturned == es_calls # <<>> /\ es_pc \in {"seasonal", "done"}

\* the neutral defaults of a skipped call: AR and MA blocks zero, mu zero
\* when the call fits an intercept, sigma2 one when the call estimates it,
\* and what the call does not estimate is left as it was
NeutralDefaults(c) ==
  LET sh == CallShape(c)
  IN  \A bid \in 1..es_in.batch_size :
        /\ BlocksOfCall(c).ar[bid] = [i \in 1..sh.p |-> 0]
        /\ BlocksOfCall(c).ma[bid] = [i \in 1..sh.q |-> 0]
        /\ es_params.mu[bid] = (IF sh.k # 0 THEN 0 ELSE c.before.mu[bid])
        /\ es_params.sigma2[bid]
             = (IF sh.sigma2 THEN Unit ELSE c.before.sigma2[bid])

\* C12: the initial estimator skips the least-squares fit if and only if the
\* rows left after lag-trimming are at most the parameter count
\* (n_obs - r <= p + q + k) or, with MA terms, the rows of the preliminary
\* AR fit are at most its order (n_obs - p_ar <= p_ar); when it skips, every
\* series gets the neutral defaults and no error is raised.
EstSkipsWhenTooFewRows ==
  EstCallReturned =>
    LET sh == CallShape(LastCall)
    IN  /\ LastCall.skipped
             <=> \/ es_in.n_obs - LagsTrimmed(sh) <= sh.p + sh.q + sh.k
                 \/ sh.q > 0 /\ es_in.n_obs - PrelimOrder(sh) <= PrelimOrder(sh)
        /\ LastCall.skipped => NeutralDefaults(LastCall)

\* C12 as stated: the fit is skipped if and only if n_obs - r < p + q + k,
\* and a skipped call leaves AR = MA = 0, mu = 0 and sigma2 = 1.
EstSkipsIffFewerRows ==
  EstCallReturned =>
    LET sh == CallShape(LastCall)
    IN  /\ LastCall.skipped
             <=> es_in.n_obs - LagsTrimmed(sh) < sh.p + sh.q + sh.k
        /\ LastCall.skipped =>
             \A bid \in 1..es_in.batch_size :
               /\ BlocksOfCall(LastCall).ar[bid] = [i \in 1..sh.p |-> 0]
               /\ BlocksOfCall(LastCall).ma[bid] = [i \in 1..sh.q |-> 0]
               /\ es_params.mu[bid] = 0
               /\ es_params.sigma2[bid] = Unit

\* the fit was skipped with as many rows as parameters, for two series
EstSkippedOnEqualRows ==
  /\ EstCallReturned
  /\ LastCall.skipped
  /\ es_in.batch_size = 2
  /\ es_in.n_obs - LagsTrimmed(CallShape(LastCall))
       = CallShape(LastCall).p + CallShape(LastCall).q + CallShape(LastCall).k

AbsVal(v) == IF v < 0 THEN -v ELSE v

\* some partial autocorrelation recovered from a block of one or two
\* coefficients has |w| >= 1: w2 = c2, w1 = c1 / (1 - c2) for an AR block
\* and c1 / (1 + c2) for an MA block
HasBadPacf(block, isAr) ==
  IF Len(block) = 1 THEN AbsVal(block[1]) >= Unit
  ELSE \/ AbsVal(block[2]) >= Unit
       \/ AbsVal(block[1]) >= Unit - (IF isAr THEN 1 ELSE -1) * block[2]

\* the block the validity check must leave for a least-squares block
CheckedBlock(block, isAr) ==
  IF block # <<>> /\ HasBadPacf(block, isAr)
  THEN [i \in 1..Len(block) |-> 0]
  ELSE block

\* C17: after the least-squares estimate, independently for every series,
\* the AR block is all zeros if and only if its validity check fails, and
\* likewise the MA block; a valid block is left as estimated, and zeroing a
\* block changes neither the other block, nor mu, nor sigma2, nor another
\* series, nor the blocks of the other call.
InvalidBlocksZeroed ==
  (EstCallReturned /\ ~LastCall.skipped) =>
    LET c == LastCall
        sh == CallShape(c)
    IN  /\ \A bid \in 1..es_in.batch_size :
             /\ BlocksOfCall(c).ar[bid] = CheckedBlock(c.ls.ar[bid], TRUE)
             /\ BlocksOfCall(c).ma[bid] = CheckedBlock(c.ls.ma[bid], FALSE)
             /\ es_params.mu[bid]
                  = (IF sh.k # 0 THEN c.ls.mu[bid] ELSE c.before.mu[bid])
             /\ es_params.sigma2[bid]
                  = (IF sh.sigma2 THEN c.ls.sigma2[bid]
                     ELSE c.before.sigma2[bid])
        /\ IF c.part = "arma"
           THEN es_params.sar = c.before.sar /\ es_params.sma = c.before.sma
           ELSE es_params.ar = c.before.ar /\ es_params.ma = c.before.ma

\* an estimate of two series with two AR and two MA terms: the AR block of
\* the first series is zeroed and its MA block kept, the second series
\* keeps both
EstZeroedOneBlock ==
  /\ EstCallReturned
  /\ ~LastCall.skipped
  /\ LastCall.part = "arma"
  /\ es_in.batch_size = 2
  /\ es_order.p = 2 /\ es_order.q = 2
  /\ es_params.ar[1] = <<0, 0>> /\ LastCall.ls.ar[1] # <<0, 0>>
  /\ es_params.ma[1] = LastCall.ls.ma[1] /\ es_params.ma[1] # <<0, 0>>
  /\ es_params.ar[2] = LastCall.ls.ar[2] /\ es_params.ar[2] # <<0, 0>>
  /\ es_params.ma[2] = LastCall.ls.ma[2] /\ es_params.ma[2] # <<0, 0>>

\* the central difference of the likelihood of series b alone, taken with
\* respect to its parameter i (0-based): ll_f on a batch of one series
SeriesDifference(b, i) ==
  LET np_ == gf_args.num_parameters
      xb == Slice(gf_args.x, (b - 1) * np_, b * np_)
      e_i == [zeros(np_) EXCEPT ![i + 1] = 1]
      yb == <<gf_args.y[b]>>
  IN  (ll_f(1, np_, yb, Perturbed(xb, e_i, 1))[1]
       - ll_f(1, np_, yb, Perturbed(xb, e_i, -1))[1]) \div 2

BicMinusAic ==
  (ic_bic # <<>> /\ ic_aic # <<>>) =>
    \A i \in 1..ic_model.num_batches :
      LET k_i == _model_complexity(ic_model.order[i])
      IN  /\ ic_bic[i].c - ic_aic[i].c = -2 * k_i
          /\ ic_bic[i].logc - ic_aic[i].logc = k_i

\* C14 witness: both criteria have been read for a model of two series
\* whose orders have different complexities
BothCriteriaOfMixedModel ==
  /\ ic_bic # <<>>
  /\ ic_aic # <<>>
  /\ ic_model.num_batches = 2
  /\ _model_complexity(ic_model.order[1]) # _model_complexity(ic_model.order[2])
  /\ _model_complexity(ic_model.order[2]) > 0

\* the trend indicator k of an order (p, d, q) of the Python layer: the
\* parameter vector holds an intercept mu exactly when d > 0
TrendOf(order) == IF order[2] > 0 THEN 1 ELSE 0

\* C15: the complexity that multiplies log(n) in bic, and that aic adds
\* twice, is p + q + k + 1 for every order.
ComplexityCountsParameters ==
  /\ ic_bic # <<>> =>
       \A i \in 1..ic_model.num_batches :
         LET o == ic_model.order[i]
         IN  ic_bic[i].logc = o[1] + o[3] + TrendOf(o) + 1
  /\ (ic_bic # <<>> /\ ic_aic # <<>>) =>
       \A i \in 1..ic_model.num_batches :
         LET o == ic_model.order[i]
         IN  ic_aic[i].c - ic_bic[i].c = 2 * (o[1] + o[3] + TrendOf(o) + 1)

\* the sum of the squares of the residuals the recursion has written
RECURSIVE SumOfSquares(_, _, _)
SumOfSquares(vs, from, to) ==
  IF from > to THEN 0
  ELSE vs[from] * vs[from] + SumOfSquares(vs, from + 1, to)

\* the value the CSS kernel passes to the logarithm has, as numerator, the
\* sum of the squared residuals of the recursion
CssSumsResiduals ==
  cs_pc = "done" =>
    cs_loglike.num = SumOfSquares(cs_vs, cs_in.start, cs_in.n_obs - 1)

\* C16: the log-likelihood the CSS kernel writes is -0.5 * n * log(SSQ / n):
\* SSQ is the sum of the squared residuals of the recursion, and the
\* multiplier and the divisor of SSQ are the same observation count.
CssLoglikeSameCount ==
  /\ CssSumsResiduals
  /\ cs_pc = "done" => cs_loglike.mult = cs_loglike.den

\* C18: every candidate fitted during the search respects the hard caps on
\* the maxima the caller passed: p <= min(max_p, 4), q <= min(max_q, 4),
\* P <= min(max_P, 4), Q <= min(max_Q, 4); with a seasonal period s set,
\* p < s and q < s; without one, P = Q = 0 and the candidate's s is 0.
CandidatesWithinCaps ==
  \A n \in 1..Len(aa_log) :
    LET e == aa_log[n]
        g == aa_bounds.given
    IN  e.stage = "search" =>
          /\ e.order[1] <= Min2(g.max_p, 4)
          /\ e.order[3] <= Min2(g.max_q, 4)
          /\ e.seasonal_order[1] <= Min2(g.max_P, 4)
          /\ e.seasonal_order[3] <= Min2(g.max_Q, 4)
          /\ Truthy(aa_args.s) =>
               /\ e.order[1] < aa_args.s
               /\ e.order[3] < aa_args.s
          /\ ~Truthy(aa_args.s) =>
               /\ e.seasonal_order[1] = 0
               /\ e.seasonal_order[3] = 0
               /\ e.seasonal_order[4] = 0

\* C18 witness: with a seasonal period set and max_p = 5 passed, a candidate
\* with p = s - 1 has been fitted during the search
CandidateAtPeriodCap ==
  /\ Truthy(aa_args.s)
  /\ aa_bounds.given.max_p = 5
  /\ \E n \in 1..Len(aa_log) :
       /\ aa_log[n].stage = "search"
       /\ aa_log[n].order[1] = aa_args.s - 1

\* C18 witness, the cap of 4: with max_p = 5 passed and no seasonal period,
\* a candidate with p = 4 has been fitted during the search
CandidateAtHardCap ==
  /\ ~Truthy(aa_args.s)
  /\ aa_bounds.given.max_p = 5
  /\ \E n \in 1..Len(aa_log) :
       /\ aa_log[n].stage = "search"
       /\ aa_log[n].order[1] = 4
       /\ aa_log[n].seasonal_order[4] = 0

\* C19: with d chosen by the stationarity tests, every bucket key (d, D)
\* has d <= max_d, at most max_d tests have been run for the D-bucket being
\* processed, and the differencing search raises no error, also for
\* max_d = 0.  (max_D is an argument fit never reads.)
DifferencingWithinCaps ==
  /\ aa_pc # "UnboundLocalError"
  /\ (aa_args.d = NoneV /\ aa_args.max_d # Unread) =>
       /\ \A n \in 1..Len(aa_data_dD) :
            aa_data_dD[n].key[1] <= aa_args.max_d
       /\ aa_loop.j <= aa_args.max_d

\* the part of C19 that holds: the keys and the number of tests are within
\* max_d
DifferencingKeysWithinCaps ==
  (aa_args.d = NoneV /\ aa_args.max_d # Unread) =>
    /\ \A n \in 1..Len(aa_data_dD) :
         aa_data_dD[n].key[1] <= aa_args.max_d
    /\ aa_loop.j <= aa_args.max_d

\* C20: search_method = "auto" is resolved without an error, and to "css"
\* only with a seasonal period s >= 4.
SearchMethodResolved ==
  /\ aa_pc # "TypeError"
  /\ aa_args.search_method # "auto"
  /\ aa_args.search_method = "css" => aa_args.s >= 4

\* the stores of the lambda of series bid in the for_each that is running
PhaseWrites(bid) ==
  IF pr_phase = "insample" THEN InSampleWrites(pr_args, bid)
  ELSE IF pr_phase = "forecast" THEN ForecastWrites(pr_args, bid)
  ELSE <<>>

\* the elements of d_y_p the lambda of series bid has stored to so far
WrittenBy(bid) == {PhaseWrites(bid)[k][1] : k \in 1..pr_i[bid]}

\* d_y_p after the stores ws[k..] made in program order
RECURSIVE ApplyWrites(_, _, _)
ApplyWrites(out, ws, k) ==
  IF k > Len(ws) THEN out
  ELSE ApplyWrites(Store(out, ws[k][1], ws[k][2]), ws, k + 1)

\* d_y_p after the in-sample lambdas (when ins) or the forecast-copy lambdas
\* of the series bid, bid + 1, ... run one after the other
RECURSIVE RunInOrder(_, _, _, _)
RunInOrder(out, a, bid, ins) ==
  IF bid >= a.batch_size THEN out
  ELSE RunInOrder(ApplyWrites(out,
                              IF ins THEN InSampleWrites(a, bid)
                              ELSE ForecastWrites(a, bid), 1),
                  a, bid + 1, ins)

\* the output of predict when every for_each runs its lambdas in the order
\* of the series ids
SequentialOutput(a) ==
  LET out0 == [idx \in 0..(a.batch_size * predict_ld(a) - 1) |-> Uninit]
      out1 == IF a.start < a.n_obs THEN RunInOrder(out0, a, 0, TRUE) ELSE out0
  IN  IF num_steps(a) # 0 THEN RunInOrder(out1, a, 0, FALSE) ELSE out1

\* the output predict returns is the one of the sequential order of the
\* series, whatever the interleaving
PredictOutputDeterministic ==
  pr_phase = "done" => pr_out = SequentialOutput(pr_args)

\* C21: the lambdas of two distinct series never store to the same element
\* of the output array, and the output predict returns is the one of the
\* sequential order of the series, whatever the interleaving.
PredictIterationsIndependent ==
  /\ \A b1 \in DOMAIN pr_i : \A b2 \in DOMAIN pr_i :
       b1 # b2 => WrittenBy(b1) \cap WrittenBy(b2) = {}
  /\ PredictOutputDeterministic

\* C24: every store predict makes to its output array is at an index inside
\* the row [bid * (end - start), (bid + 1) * (end - start)) of the series
\* that makes it.
PredictWritesOwnRow ==
  \A bid \in DOMAIN pr_i : \A idx \in WrittenBy(bid) :
    /\ bid * predict_ld(pr_args) <= idx
    /\ idx < (bid + 1) * predict_ld(pr_args)

\* the positions after i of the log at which the buffer allocated at
\* position i is deallocated
ReleasesOf(log, i) ==
  {j \in (i + 1)..Len(log) :
     log[j].op = "deallocate" /\ log[j].buf = log[i].buf}

\* no buffer is deallocated that is not allocated at that moment
NoStrayRelease(log) ==
  \A j \in 1..Len(log) :
    log[j].op = "deallocate" =>
      Cardinality({i \in 1..(j - 1) : log[i].buf = log[j].buf
                                       /\ log[i].op = "allocate"})
        > Cardinality({i \in 1..(j - 1) : log[i].buf = log[j].buf
                                           /\ log[i].op = "deallocate"})

\* every allocated buffer is deallocated exactly once, with its size
ReleasedOnce(log) ==
  \A i \in 1..Len(log) :
    log[i].op = "allocate" =>
      /\ Cardinality(ReleasesOf(log, i)) = 1
      /\ \A j \in ReleasesOf(log, i) : log[j].size = log[i].size

\* C22: predict, batched_loglike and information_criterion deallocate only
\* buffers they hold, and when they return every buffer they allocated has
\* been deallocated exactly once, with the size it was allocated with.
ScratchBuffersReleased ==
  /\ NoStrayRelease(pr_bufs)
  /\ NoStrayRelease(bl_log)
  /\ pr_phase = "done" => ReleasedOnce(pr_bufs)
  /\ bl_pc = "done" => ReleasedOnce(bl_log)

\* C22 witness: information_criterion has returned after a CSS evaluation
\* on differenced data that needed y_prep, phi and theta next to d_vs
CriterionReleasedAll ==
  /\ bl_pc = "done"
  /\ bl_args.entry = "information_criterion"
  /\ bl_args.lost_in_diff > 0
  /\ Len(bl_log) = 8

\* the step the search tests next is the last tested step times width
NextStepIsScaled ==
  (ls_pc = "loop" /\ ls_st.evals > 0) =>
    /\ ls_st.width \in LsWidths
    /\ ls_st.step = (IF ls_st.width = "ls_dec" THEN ls_st.tested \div 2
                     ELSE ls_st.tested * 2)

\* the two returns ahead of the loop: nothing evaluated, nothing written
EarlyReturnsTouchNothing ==
  ls_pc = "done" =>
    /\ (ls_param.step <= 0) <=> (ls_st.ret = "LS_INVALID_STEP")
    /\ (ls_param.step > 0 /\ ls_param.dg_init > 0)
         <=> (ls_st.ret = "LS_INVALID_DIR")
    /\ ls_st.ret \in {"LS_INVALID_STEP", "LS_INVALID_DIR"}
         => (ls_st.evals = 0 /\ ~ls_st.moved)

LsEvaluationsCapped ==
  ls_st.evals <= ls_param.max_linesearch

\* C23 as stated: ls_backtrack evaluates the objective at most
\* max_linesearch times; a search in which no tested step succeeded returns
\* LS_MAX_ITERS_REACHED; LS_INVALID_STEP and LS_INVALID_DIR are returned
\* without an evaluation and without a write; a failed test has assigned
\* the width the next step is multiplied by.
LineSearchEndsAtCap ==
  /\ LsEvaluationsCapped
  /\ EarlyReturnsTouchNothing
  /\ NextStepIsScaled
  /\ (ls_pc = "done" /\ ls_st.evals > 0 /\ ls_st.ret # "LS_SUCCESS")
       => ls_st.ret = "LS_MAX_ITERS_REACHED"

\* C23 amended: as above, but a search in which no tested step succeeded
\* returns LS_MAX_ITERS_REACHED only if every tested step lay within
\* [min_step, max_step]; a failed step below min_step ends the search with
\* LS_INVALID_STEP_MIN and one above max_step with LS_INVALID_STEP_MAX.
LineSearchEndsAtCapOrStepLimit ==
  /\ LsEvaluationsCapped
  /\ EarlyReturnsTouchNothing
  /\ NextStepIsScaled
  /\ (ls_pc = "done" /\ ls_st.moved /\ ls_st.ret # "LS_SUCCESS") =>
       /\ ls_st.tested < ls_param.min_step
            <=> ls_st.ret = "LS_INVALID_STEP_MIN"
       /\ (ls_st.tested >= ls_param.min_step
             /\ ls_st.tested > ls_param.max_step)
            <=> ls_st.ret = "LS_INVALID_STEP_MAX"
       /\ ls_st.ret = "LS_MAX_ITERS_REACHED"
            => ls_st.evals = ls_param.max_linesearch
  /\ (ls_pc = "done" /\ ls_st.ret = "LS_MAX_ITERS_REACHED")
       => ls_st.iter = ls_param.max_linesearch

\* C23 witness: a search that shortened the step after a failed test and
\* then found a tested step below min_step
SearchStoppedBelowMinStep ==
  /\ ls_pc = "done"
  /\ ls_st.ret = "LS_INVALID_STEP_MIN"
  /\ ls_st.evals >= 2
  /\ ls_st.width = "ls_dec"

\* the stages of AutoARIMA.fit and predict that follow the clamping
AfterClamp == {"grid", "final", "fitted", "predicted"}

\* C25: after the clamping of AutoARIMA.fit start_x <= max_x for p, q, P
\* and Q; the grid of every (d, D) bucket holds at least one fitted
\* candidate when it is divided; every series of the batch belongs to a
\* final model once fit has returned.
ClampedGridNonEmpty ==
  /\ aa_pc \in AfterClamp =>
       /\ aa_bounds.start_p <= aa_bounds.max_p
       /\ aa_bounds.start_q <= aa_bounds.max_q
       /\ aa_bounds.start_P <= aa_bounds.max_P
       /\ aa_bounds.start_Q <= aa_bounds.max_Q
  /\ (aa_pc = "grid" /\ aa_loop.j > LoopLen(aa_bounds))
       => aa_all_orders # <<>>
  /\ aa_pc = "fitted" =>
       \A i \in 0..(aa_self.batch_size - 1) : aa_map.id_to_model[i] >= 0

\* the cells the next iteration of the main loop reads: b_y[i - t - 1] for
\* the threads t < n_phi and b_vs[i - t - 1] for the threads t < n_theta
CssReadsInRange ==
  (cs_pc = "loop" /\ cs_i < cs_in.n_obs) =>
    /\ \A t \in 1..cs_in.n_phi : cs_i - t \in CellsOf(cs_in.n_obs)
    /\ \A t \in 1..cs_in.n_theta :
         /\ cs_i - t \in CellsOf(cs_in.n_obs)
         /\ cs_i - t < cs_in.start => cs_vs[cs_i - t] = 0

\* C26: the CSS kernel reads and writes b_y and b_vs at indices of
\* [0, n_obs) only, a residual below start is zero when it is read, and the
\* divisor n_obs - start of the sum of squares is strictly positive, for
\* every order and every n_obs.
CssStaysInBuffers ==
  /\ cs_oob = {}
  /\ CssReadsInRange
  /\ cs_pc = "done" => cs_loglike.den > 0

\* the sizes of a call of _arma_least_squares
SizesOfCall(c) ==
  LsShape(es_in.n_obs, CallShape(c).p, CallShape(c).q, CallShape(c).s,
          CallShape(c).k)

\* C27: a call of _arma_least_squares that proceeds past its guard has a
\* least-squares system with strictly more rows than columns, lag offsets
\* that are not negative, lagged blocks that fit inside y (n_obs values) and
\* inside the residuals of the preliminary fit (n_obs - p_ar values), and a
\* strictly positive variance divisor.
LeastSquaresWellShaped ==
  \A n \in 1..Len(es_calls) :
    ~es_calls[n].skipped =>
      LET z == SizesOfCall(es_calls[n])
      IN  /\ z.rows > z.cols
          /\ z.ar_offset >= 0
          /\ z.res_offset >= 0
          /\ z.ar_offset + z.ps + z.rows <= es_in.n_obs
          /\ z.res_offset + z.qs + z.rows <= z.ls_height
          /\ z.sigma2_div > 0

\* C27 witness: a seasonal call with moving-average lags that was not
\* skipped
SeasonalMovingAverageFitted ==
  /\ es_pc = "done"
  /\ es_calls # <<>>
  /\ LastCall.part = "seasonal"
  /\ ~LastCall.skipped
  /\ es_order.Q > 0
  /\ es_order.P > 0
  /\ SizesOfCall(LastCall).r = 3 * EstPeriod

\* C28: when estimate_x0 returns, sigma2 of every series has been assigned,
\* with the estimate from the residuals or with the default 1, for every
\* order.
SigmaAssignedForEverySeries ==
  es_pc = "done" =>
    \A bid \in 1..es_in.batch_size :
      /\ es_params.sigma2[bid] # Uninit
      /\ es_params.sigma2[bid] \in {Unit, SigmaTok(bid)}

\* the number of candidates grid_search has fitted and compared so far
GridProcessed ==
  Cardinality({k \in 1..(gs_k - 1) :
                 k <= GridLen(gs_args)
                 /\ ~(GridOrder(gs_args, k)[1] = 0
                      /\ GridOrder(gs_args, k)[3] = 0)})

\* the entries of series i in best_model are those of the model fitted for
\* the order best_model.order[i]
EntriesOfOneCandidate(i) ==
  LET ord == gs_best_model.order[i]
  IN  /\ ord \in gs_argmin[i]
      /\ gs_best_model.mu[i] = FittedMu(ord, i)
      /\ gs_best_model.ar_params[i] = FittedAr(ord, i)
      /\ gs_best_model.ma_params[i] = FittedMa(ord, i)
      /\ Len(gs_best_model.ar_params[i]) = ord[1]
      /\ Len(gs_best_model.ma_params[i]) = ord[3]

\* the entries of series i are those best_model was constructed with
EntriesInitial(i) ==
  /\ gs_best_ic[i] = BigIC
  /\ gs_best_model.order[i] = <<>>
  /\ gs_best_model.mu[i] = 0
  /\ gs_best_model.ar_params[i] = <<>>
  /\ gs_best_model.ma_params[i] = <<>>

\* best_ic never increases, and a step that leaves best_ic[i] as it was
\* leaves every entry of series i as it was
GridUpdateIsPerSeries ==
  gs_pc = "loop" =>
    \A i \in 1..gs_args.nb :
      /\ gs_best_ic'[i] <= gs_best_ic[i]
      /\ gs_best_ic'[i] = gs_best_ic[i] =>
           /\ gs_best_model'.order[i] = gs_best_model.order[i]
           /\ gs_best_model'.mu[i] = gs_best_model.mu[i]
           /\ gs_best_model'.ar_params[i] = gs_best_model.ar_params[i]
           /\ gs_best_model'.ma_params[i] = gs_best_model.ma_params[i]

\* C29 as stated: in grid_search, once a candidate has been processed,
\* best_ic[i] is for every series i the lowest IC seen so far and never
\* increases; order[i], mu[i], ar_params[i] and ma_params[i] of best_model
\* come from the one candidate with that IC, with p and q coefficients; an
\* update for a series changes no entry of another series.
GridBestIsMinimumSeen ==
  /\ [](gs_pc \in {"loop", "done"} /\ GridProcessed > 0 =>
          \A i \in 1..gs_args.nb :
            /\ gs_min[i] # NoIC
            /\ gs_best_ic[i] = gs_min[i]
            /\ EntriesOfOneCandidate(i))
  /\ [][GridUpdateIsPerSeries]_vars

\* C29 amended: as above for every series that has had a candidate with an
\* IC that is a number below the initial best_ic; a series whose candidates
\* all reported NaN or +infinity keeps the initial best_ic and the initial
\* empty entries.
GridBestIsMinimumComparable ==
  /\ [](gs_pc \in {"loop", "done"} =>
          \A i \in 1..gs_args.nb :
            IF gs_min[i] = NoIC THEN EntriesInitial(i)
            ELSE /\ gs_best_ic[i] = gs_min[i]
                 /\ EntriesOfOneCandidate(i))
  /\ [][GridUpdateIsPerSeries]_vars

\* C29 witness: of two series, one was updated by the second candidate and
\* the other kept the entries of the first
GridUpdatedOneSeries ==
  /\ gs_pc \in {"loop", "done"}
  /\ gs_args.nb = 2
  /\ GridProcessed >= 2
  /\ gs_min[1] # NoIC /\ gs_min[2] # NoIC
  /\ gs_best_model.order[1] # gs_best_model.order[2]
  /\ gs_best_model.ar_params[1] # gs_best_model.ar_params[2]
====
